---- MODULE Spec2Model ----
(***************************************************************************)
(* Goal-decomposition pipeline of langgraph_decomposer.py: the four graph  *)
(* nodes (parse_goal, decompose_to_subgoals, generate_tasks, finalize),    *)
(* the conditional edge that loops generate_tasks, the entry point         *)
(* decompose_goal_with_langgraph, and the Goal/Subgoal/Task/Subtask tree   *)
(* of models.py that finalize assembles.                                   *)
(*                                                                         *)
(* The text-completion service is the environment: each call either raises *)
(* or returns a text, modelled as a sequence of tokens on which the        *)
(* first-"{" / last-"}" slice and json.loads are computed.                 *)
(***************************************************************************)
EXTENDS Integers, Sequences, FiniteSets, TLC

\* ------------------------------------------------------------------------
\* Bounds
\* ------------------------------------------------------------------------
MaxStubs == 2      \* longest stub list a split response carries
MaxTasks == 2      \* longest task list a task-generation response carries
MaxRetries == 2    \* failed task-generation executions kept in the history
MaxIds == 4        \* the factories are called while the next uuid4 number is at most this

\* ------------------------------------------------------------------------
\* Inputs of the entry point
\* ------------------------------------------------------------------------
GoalTexts == {"Prepare for Nov 2 exam"}
Categories == {"Academics", "Sports"}
Feedback == <<"too many tasks">>

DefaultConfidence == 5
MissingConfidence == 0
DefaultEstimatedMinutes == 10

\* ------------------------------------------------------------------------
\* JSON values carried by a response.  A dict is a record with the set
\* `has` of the keys that are present; d.get(k, default) reads through it.
\* ------------------------------------------------------------------------
Get(d, k, default) == IF k \in d.has THEN d[k] ELSE default

\* an element of the "subgoals" array: a JSON object, or something else
\* (a bare string) when isDict is FALSE
Stub(has, title, description) ==
    [isDict |-> TRUE, has |-> has, title |-> title, description |-> description]
StubString(s) ==
    [isDict |-> FALSE, has |-> {}, title |-> s, description |-> ""]

\* an element of the "tasks" array
TaskData(has, task, minutes, subtasks) ==
    [isDict |-> TRUE, has |-> has, task |-> task,
     estimated_minutes |-> minutes, subtasks |-> subtasks]
TaskString(s) ==
    [isDict |-> FALSE, has |-> {}, task |-> s,
     estimated_minutes |-> 0, subtasks |-> <<>>]

Dict(has, title, description, confidence, rationale, subgoals, tasks) ==
    [has |-> has, title |-> title, description |-> description,
     confidence |-> confidence, rationale |-> rationale,
     subgoals |-> subgoals, tasks |-> tasks]

EmptyDict == Dict({}, "", "", 0, "", <<>>, <<>>)

\* ------------------------------------------------------------------------
\* Response texts: sequences of tokens.  "{" and "}" are braces, "x" is
\* any other non-blank text, " " is whitespace, "kv" is the key/value text
\* between the outermost braces of an object (its content is d).
\* ------------------------------------------------------------------------
Tok(c) == [c |-> c, d |-> EmptyDict]
KV(d) == [c |-> "kv", d |-> d]
LB == Tok("{")
RB == Tok("}")
Prose == Tok("x")
Blank == Tok(" ")

\* str.strip()
RECURSIVE LStrip(_)
LStrip(s) == IF s # <<>> /\ Head(s).c = " " THEN LStrip(Tail(s)) ELSE s
RECURSIVE RStrip(_)
RStrip(s) ==
    IF s # <<>> /\ s[Len(s)].c = " " THEN RStrip(SubSeq(s, 1, Len(s) - 1)) ELSE s
Strip(s) == RStrip(LStrip(s))

\* str.index / str.rindex: position of the first / last token c, 0 when the
\* token is absent (the call raises ValueError)
Index(s, c) ==
    IF \E i \in 1..Len(s) : s[i].c = c
    THEN CHOOSE i \in 1..Len(s) : s[i].c = c /\ \A j \in 1..(i - 1) : s[j].c # c
    ELSE 0
RIndex(s, c) ==
    IF \E i \in 1..Len(s) : s[i].c = c
    THEN CHOOSE i \in 1..Len(s) : s[i].c = c /\ \A j \in (i + 1)..Len(s) : s[j].c # c
    ELSE 0

\* json.loads on a sliced text: an object is "{" "}" or "{" kv "}"
JsonValid(t) ==
    \/ Len(t) = 2 /\ t[1].c = "{" /\ t[2].c = "}"
    \/ Len(t) = 3 /\ t[1].c = "{" /\ t[2].c = "kv" /\ t[3].c = "}"
JsonLoads(t) == IF Len(t) = 3 THEN t[2].d ELSE EmptyDict

\* resp = llm.invoke(prompt); raw = resp.content.strip();
\* json_text = raw[raw.index("{"): raw.rindex("}") + 1]; json.loads(json_text)
\* ok is FALSE when any of these raises, and e is then str(e) of the exception
Raised(e) == [ok |-> FALSE, e |-> e, data |-> EmptyDict]
ExtractJson(resp) ==
    IF resp.err THEN Raised("service unavailable")
    ELSE LET raw == Strip(resp.content)
             i == Index(raw, "{")
             j == RIndex(raw, "}")
             json_text == SubSeq(raw, i, j)
         IN IF i = 0 \/ j = 0 THEN Raised("substring not found")
            ELSE IF ~JsonValid(json_text) THEN Raised("Expecting value")
            ELSE [ok |-> TRUE, e |-> "", data |-> JsonLoads(json_text)]

ServiceError == [err |-> TRUE, content |-> <<>>]
Text(s) == [err |-> FALSE, content |-> s]

\* texts that carry no parseable object
BadTexts ==
    { <<Prose>>,                      \* no brace at all
      <<LB, Prose>>,                  \* no closing brace
      <<RB, Prose, LB>>,              \* last "}" before first "{"
      <<LB, Prose, RB>> }             \* braces around text that is not JSON
Failures == {ServiceError} \cup {Text(s) : s \in BadTexts}

\* an object alone, and the same object inside surrounding prose
Plain(d) == Text(<<LB, KV(d), RB>>)
Wrapped(d) == Text(<<Blank, Prose, LB, KV(d), RB, Prose, Blank>>)
EmptyObject == Text(<<LB, RB>>)

\* ------------------------------------------------------------------------
\* What the completion service may answer at each stage
\* ------------------------------------------------------------------------
ParseFull ==
    Dict({"title", "description", "confidence", "rationale"},
         "Exam prep", "Pass the Nov 2 exam", 8, "clear goal", <<>>, <<>>)
ParseResponses ==
    Failures \cup {Plain(ParseFull), Wrapped(ParseFull), EmptyObject}

\* stub i (1-based) of a well-formed list; the second one has no "title"
GoodStub(i) ==
    IF i = 2 THEN Stub({"description"}, "", "why 2")
    ELSE Stub({"title", "description"}, "Stub " \o ToString(i), "why")
GoodStubs(n) == [i \in 1..n |-> GoodStub(i)]
\* lists with an element that is a bare string instead of an object
BadStubs ==
    { <<StubString("Review material")>>,
      <<GoodStub(1), StubString("Rest")>> }
StubLists == {GoodStubs(n) : n \in 0..MaxStubs} \cup BadStubs

SplitDict(has, l) == Dict(has, "", "", 7, "Node 2: fine", l, <<>>)
SplitResponses ==
    Failures
    \cup {Plain(SplitDict({"subgoals", "confidence", "rationale"}, l)) : l \in StubLists}
    \cup {Wrapped(SplitDict({"subgoals"}, GoodStubs(MaxStubs)))}
    \cup {EmptyObject}

\* task j (1-based) of a well-formed list; the second one is an empty object
GoodTask(j) ==
    IF j = 2 THEN TaskData({}, "", 0, <<>>)
    ELSE TaskData({"task", "estimated_minutes", "subtasks"},
                  "Task " \o ToString(j), 10 + 5 * j, <<"step a", "step b">>)
GoodTasks(n) == [j \in 1..n |-> GoodTask(j)]
BadTasks == { <<GoodTask(1), TaskString("do it")>> }
TaskLists == {GoodTasks(MaxTasks)} \cup BadTasks

GenDict(has, l) == Dict(has, "", "", 6, "Node 3: fine", <<>>, l)
GenSuccesses ==
    {Plain(GenDict({"tasks", "confidence", "rationale"}, l)) : l \in TaskLists}
    \cup {Wrapped(GenDict({"tasks"}, GoodTasks(MaxTasks)))}
    \cup {EmptyObject}
GenResponses == Failures \cup GenSuccesses

\* ------------------------------------------------------------------------
\* Entity model (models.py).  uuid4 identifiers are fresh numbers.
\* ------------------------------------------------------------------------
\* Subtask.__init__
NewSubtask(description, parent_task_id, id) ==
    [id |-> id, parent_task_id |-> parent_task_id,
     description |-> description, done |-> FALSE]

\* Task.__init__ as called by add_task: due is None and becomes "None"
NewTask(task, parent_subgoal_id, parent_goal_id, estimated_minutes, id) ==
    [id |-> id, parent_subgoal_id |-> parent_subgoal_id,
     parent_goal_id |-> parent_goal_id, task |-> task, due |-> "None",
     started |-> FALSE, done |-> FALSE, subtasks |-> <<>>,
     counted |-> FALSE, estimated_minutes |-> estimated_minutes]

\* Subgoal.__init__ as called by add_subgoal
NewSubgoal(title, parent_goal_id, level, id) ==
    [id |-> id, parent_goal_id |-> parent_goal_id, title |-> title,
     level |-> level, tasks |-> <<>>, status |-> "active"]

\* Goal.__init__ as called by finalize
NewGoal(title, description, category, status, confidence, rationale, id) ==
    [id |-> id, title |-> title, description |-> description,
     subgoals |-> <<>>, status |-> status, category |-> category,
     created_at |-> "now", confidence |-> confidence, rationale |-> rationale]

RECURSIVE SumTasks(_, _)
SumTasks(subgoals, n) ==
    IF n = 0 THEN 0 ELSE Len(subgoals[n].tasks) + SumTasks(subgoals, n - 1)

\* Goal.get_total_tasks
get_total_tasks(goal) == SumTasks(goal.subgoals, Len(goal.subgoals))


\* ------------------------------------------------------------------------
\* Pipeline state (DecompositionState) and the graph nodes
\* ------------------------------------------------------------------------
None == <<>>
Some(x) == <<x>>

\* f"subgoal_{i}"
SubgoalKey(i) == "subgoal_" \o ToString(i)

\* d[k] = v on a Python dict
DictSet(d, k, v) == [x \in DOMAIN d \cup {k} |-> IF x = k THEN v ELSE d[x]]
\* d.get(k, default) on a Python dict
DictGet(d, k, default) == IF k \in DOMAIN d THEN d[k] ELSE default

\* ------------------------------------------------------------------------
\* Entity model (models.py), all parameters.  The dict of to_dict is a
\* function on its string keys, read with DictGet.
\* ------------------------------------------------------------------------
\* an absent optional argument: None for an id, for due and for
\* estimated_minutes (ids are positive, minutes are not negative)
NoId == 0
NoDue == ""
NoMinutes == -1

\* `subtask_id or str(uuid.uuid4())`: fresh is the uuid4 that would be drawn
IdOr(id, fresh) == IF id = NoId THEN fresh ELSE id
\* `due or "None"`
DueOr(due) == IF due = NoDue THEN "None" ELSE due
\* `subtasks or []`
ListOr(l) == IF Len(l) = 0 THEN <<>> ELSE l

\* Subtask.__init__
SubtaskInit(description, parent_task_id, done, subtask_id, fresh) ==
    [id |-> IdOr(subtask_id, fresh), parent_task_id |-> parent_task_id,
     description |-> description, done |-> done]

\* Task.__init__
TaskInit(task, parent_subgoal_id, parent_goal_id, due, started, done, subtasks, counted, estimated_minutes, task_id, fresh) ==
    [id |-> IdOr(task_id, fresh), parent_subgoal_id |-> parent_subgoal_id,
     parent_goal_id |-> parent_goal_id, task |-> task, due |-> DueOr(due),
     started |-> started, done |-> done, subtasks |-> ListOr(subtasks),
     counted |-> counted, estimated_minutes |-> estimated_minutes]

\* Subgoal.__init__
SubgoalInit(title, parent_goal_id, level, tasks, status, subgoal_id, fresh) ==
    [id |-> IdOr(subgoal_id, fresh), parent_goal_id |-> parent_goal_id,
     title |-> title, level |-> level, tasks |-> ListOr(tasks),
     status |-> status]

\* Goal.__init__; created_at is the datetime passed or datetime.now()
GoalInit(title, description, subgoals, status, category, created_at, goal_id, confidence, rationale, fresh) ==
    [id |-> IdOr(goal_id, fresh), title |-> title, description |-> description,
     subgoals |-> ListOr(subgoals), status |-> status, category |-> category,
     created_at |-> created_at, confidence |-> confidence,
     rationale |-> rationale]

\* The factories return the entity they construct (ret) and leave the
\* caller with it appended (self).

\* variant: a task that gets a new subtask is no longer done
add_subtaskReopens(task, description, fresh) ==
    LET subtask == SubtaskInit(description, task.id, FALSE, NoId, fresh)
    IN [ret |-> subtask,
        self |-> [task EXCEPT !.subtasks = Append(@, subtask), !.done = FALSE]]
\* variant: the new subtask is given the task's own id
add_subtaskSharesId(task, description, fresh) ==
    LET subtask == SubtaskInit(description, task.id, FALSE, task.id, fresh)
    IN [ret |-> subtask, self |-> [task EXCEPT !.subtasks = Append(@, subtask)]]
\* Task.add_subtask
add_subtask(task, description, fresh) ==
    LET subtask == SubtaskInit(description, task.id, FALSE, NoId, fresh)
    IN [ret |-> subtask, self |-> [task EXCEPT !.subtasks = Append(@, subtask)]]

\* variant: a subgoal that gets a new task becomes "active"
add_taskReopens(subgoal, task_description, due, estimated_minutes, fresh) ==
    LET task == TaskInit(task_description, subgoal.id, subgoal.parent_goal_id,
                         due, FALSE, FALSE, <<>>, FALSE, estimated_minutes,
                         NoId, fresh)
    IN [ret |-> task,
        self |-> [subgoal EXCEPT !.tasks = Append(@, task), !.status = "active"]]
\* variant: the task's parent_goal_id is stamped with the subgoal's own id
add_taskStampsSubgoal(subgoal, task_description, due, estimated_minutes, fresh) ==
    LET task == TaskInit(task_description, subgoal.id, subgoal.id,
                         due, FALSE, FALSE, <<>>, FALSE, estimated_minutes,
                         NoId, fresh)
    IN [ret |-> task, self |-> [subgoal EXCEPT !.tasks = Append(@, task)]]
\* Subgoal.add_task
add_task(subgoal, task_description, due, estimated_minutes, fresh) ==
    LET task == TaskInit(task_description, subgoal.id, subgoal.parent_goal_id,
                         due, FALSE, FALSE, <<>>, FALSE, estimated_minutes,
                         NoId, fresh)
    IN [ret |-> task, self |-> [subgoal EXCEPT !.tasks = Append(@, task)]]

\* variant: the new subgoal is inserted in front of the others
add_subgoalInFront(goal, title, level, fresh) ==
    LET subgoal == SubgoalInit(title, goal.id, level, <<>>, "active", NoId, fresh)
    IN [ret |-> subgoal, self |-> [goal EXCEPT !.subgoals = <<subgoal>> \o @]]
\* Goal.add_subgoal
add_subgoal(goal, title, level, fresh) ==
    LET subgoal == SubgoalInit(title, goal.id, level, <<>>, "active", NoId, fresh)
    IN [ret |-> subgoal, self |-> [goal EXCEPT !.subgoals = Append(@, subgoal)]]

\* sum(1 for x in seq if x.done) over the first n elements
RECURSIVE SumDone(_, _)
SumDone(seq, n) ==
    IF n = 0 THEN 0
    ELSE (IF seq[n].done THEN 1 ELSE 0) + SumDone(seq, n - 1)

\* a float that is (completed / total) * 100, kept as the exact fraction
\* <<numerator, denominator>>
Percent(completed, total) == <<completed * 100, total>>

\* variant: a task marked done reports 100 whatever its subtasks say
Task_get_completion_percentageDoneFirst(task) ==
    IF task.done THEN <<100, 1>>
    ELSE IF Len(task.subtasks) = 0 THEN <<0, 1>>
    ELSE Percent(SumDone(task.subtasks, Len(task.subtasks)), Len(task.subtasks))
\* Task.get_completion_percentage
Task_get_completion_percentage(task) ==
    IF Len(task.subtasks) = 0
    THEN (IF task.done THEN <<100, 1>> ELSE <<0, 1>>)
    ELSE Percent(SumDone(task.subtasks, Len(task.subtasks)), Len(task.subtasks))

\* variant: a task counts as completed when all its subtasks are done
Subgoal_get_completion_percentageBySubtasks(subgoal) ==
    IF Len(subgoal.tasks) = 0 THEN <<0, 1>>
    ELSE Percent(Cardinality({j \in 1..Len(subgoal.tasks) :
                    LET p == Task_get_completion_percentage(subgoal.tasks[j])
                    IN p[1] = 100 * p[2]}),
                 Len(subgoal.tasks))
\* Subgoal.get_completion_percentage
Subgoal_get_completion_percentage(subgoal) ==
    IF Len(subgoal.tasks) = 0 THEN <<0, 1>>
    ELSE Percent(SumDone(subgoal.tasks, Len(subgoal.tasks)), Len(subgoal.tasks))

\* variant: a task counts as done only when its subtasks are done too
Subgoal_update_statusBySubtasks(subgoal) ==
    IF Len(subgoal.tasks) = 0 THEN [subgoal EXCEPT !.status = "active"]
    ELSE IF \A j \in 1..Len(subgoal.tasks) :
                /\ subgoal.tasks[j].done
                /\ \A k \in 1..Len(subgoal.tasks[j].subtasks) :
                        subgoal.tasks[j].subtasks[k].done
         THEN [subgoal EXCEPT !.status = "completed"]
    ELSE [subgoal EXCEPT !.status = "active"]
\* variant: a paused subgoal with tasks left to do stays paused
Subgoal_update_statusKeepsPaused(subgoal) ==
    IF Len(subgoal.tasks) = 0 THEN [subgoal EXCEPT !.status = "active"]
    ELSE IF \A j \in 1..Len(subgoal.tasks) : subgoal.tasks[j].done
         THEN [subgoal EXCEPT !.status = "completed"]
    ELSE [subgoal EXCEPT !.status = IF @ = "paused" THEN @ ELSE "active"]
\* Subgoal.update_status
Subgoal_update_status(subgoal) ==
    IF Len(subgoal.tasks) = 0 THEN [subgoal EXCEPT !.status = "active"]
    ELSE IF \A j \in 1..Len(subgoal.tasks) : subgoal.tasks[j].done
         THEN [subgoal EXCEPT !.status = "completed"]
    ELSE [subgoal EXCEPT !.status = "active"]

\* variant: an archived goal stays archived
Goal_update_statusKeepsArchived(goal) ==
    IF goal.status = "archived" THEN goal
    ELSE IF Len(goal.subgoals) = 0 THEN [goal EXCEPT !.status = "active"]
    ELSE LET sgs == [i \in 1..Len(goal.subgoals) |->
                        Subgoal_update_status(goal.subgoals[i])]
         IN [goal EXCEPT !.subgoals = sgs,
                         !.status = IF \A i \in 1..Len(sgs) : sgs[i].status = "completed"
                                    THEN "completed" ELSE "active"]

\* variant: the children's statuses are read as they stand
Goal_update_statusStale(goal) ==
    IF Len(goal.subgoals) = 0 THEN [goal EXCEPT !.status = "active"]
    ELSE [goal EXCEPT !.status =
            IF \A i \in 1..Len(goal.subgoals) : goal.subgoals[i].status = "completed"
            THEN "completed" ELSE "active"]
\* Goal.update_status
Goal_update_status(goal) ==
    IF Len(goal.subgoals) = 0 THEN [goal EXCEPT !.status = "active"]
    ELSE LET sgs == [i \in 1..Len(goal.subgoals) |->
                        Subgoal_update_status(goal.subgoals[i])]
         IN [goal EXCEPT !.subgoals = sgs,
                         !.status = IF \A i \in 1..Len(sgs) : sgs[i].status = "completed"
                                    THEN "completed" ELSE "active"]

\* sum(sum(1 for t in sg.tasks if t.done) for sg in subgoals) over the first n
RECURSIVE SumCompleted(_, _)
SumCompleted(subgoals, n) ==
    IF n = 0 THEN 0
    ELSE SumDone(subgoals[n].tasks, Len(subgoals[n].tasks))
         + SumCompleted(subgoals, n - 1)

\* Goal.get_completed_tasks
get_completed_tasks(goal) == SumCompleted(goal.subgoals, Len(goal.subgoals))

\* the sum of the percentages of the first n subgoals, as a fraction
RECURSIVE SumPercent(_, _)
SumPercent(subgoals, n) ==
    IF n = 0 THEN <<0, 1>>
    ELSE LET a == Subgoal_get_completion_percentage(subgoals[n])
             b == SumPercent(subgoals, n - 1)
         IN <<a[1] * b[2] + b[1] * a[2], a[2] * b[2]>>

\* variant: the mean of the subgoals' percentages
Goal_get_completion_percentageMean(goal) ==
    IF Len(goal.subgoals) = 0 THEN <<0, 1>>
    ELSE LET s == SumPercent(goal.subgoals, Len(goal.subgoals))
         IN <<s[1], s[2] * Len(goal.subgoals)>>
\* Goal.get_completion_percentage
Goal_get_completion_percentage(goal) ==
    IF Len(goal.subgoals) = 0 THEN <<0, 1>>
    ELSE IF SumTasks(goal.subgoals, Len(goal.subgoals)) = 0 THEN <<0, 1>>
    ELSE Percent(SumCompleted(goal.subgoals, Len(goal.subgoals)),
                 SumTasks(goal.subgoals, Len(goal.subgoals)))

\* A datetime is its whole seconds and its microseconds.  isoformat() writes
\* the fraction only when the microseconds are not zero; fromisoformat()
\* reads either form.
\* variant: the text is cut at the seconds
isoformatSeconds(dt) == <<dt.sec>>
isoformat(dt) == IF dt.micro = 0 THEN <<dt.sec>> ELSE <<dt.sec, dt.micro>>
fromisoformat(text) ==
    [sec |-> text[1], micro |-> IF Len(text) > 1 THEN text[2] ELSE 0]

\* Subtask.to_dict / Subtask.from_dict
Subtask_to_dict(subtask) ==
    [id |-> subtask.id, parent_task_id |-> subtask.parent_task_id,
     description |-> subtask.description, done |-> subtask.done]
Subtask_from_dict(data, fresh) ==
    SubtaskInit(data["description"], data["parent_task_id"],
                DictGet(data, "done", FALSE), DictGet(data, "id", NoId), fresh)

\* Task.to_dict / Task.from_dict
Task_to_dict(task) ==
    [id |-> task.id, parent_subgoal_id |-> task.parent_subgoal_id,
     parent_goal_id |-> task.parent_goal_id, task |-> task.task,
     due |-> task.due, started |-> task.started, done |-> task.done,
     subtasks |-> [k \in 1..Len(task.subtasks) |-> Subtask_to_dict(task.subtasks[k])],
     counted |-> task.counted, estimated_minutes |-> task.estimated_minutes]
Task_from_dict(data, fresh) ==
    LET l == DictGet(data, "subtasks", <<>>)
        subtasks == [k \in 1..Len(l) |-> Subtask_from_dict(l[k], fresh + 100 * k)]
    IN TaskInit(data["task"], data["parent_subgoal_id"], data["parent_goal_id"],
                DictGet(data, "due", NoDue), DictGet(data, "started", FALSE),
                DictGet(data, "done", FALSE), subtasks,
                DictGet(data, "counted", FALSE),
                DictGet(data, "estimated_minutes", NoMinutes),
                DictGet(data, "id", NoId), fresh)

\* Subgoal.to_dict / Subgoal.from_dict
Subgoal_to_dict(subgoal) ==
    [id |-> subgoal.id, parent_goal_id |-> subgoal.parent_goal_id,
     title |-> subgoal.title, level |-> subgoal.level,
     tasks |-> [j \in 1..Len(subgoal.tasks) |-> Task_to_dict(subgoal.tasks[j])],
     status |-> subgoal.status]
Subgoal_from_dict(data, fresh) ==
    LET l == DictGet(data, "tasks", <<>>)
        tasks == [j \in 1..Len(l) |-> Task_from_dict(l[j], fresh + 10 * j)]
    IN SubgoalInit(data["title"], data["parent_goal_id"],
                   DictGet(data, "level", 1), tasks,
                   DictGet(data, "status", "active"),
                   DictGet(data, "id", NoId), fresh)

\* Goal.to_dict / Goal.from_dict; now is what datetime.now() would return
Goal_to_dict(goal) ==
    [id |-> goal.id, title |-> goal.title, description |-> goal.description,
     subgoals |-> [i \in 1..Len(goal.subgoals) |-> Subgoal_to_dict(goal.subgoals[i])],
     status |-> goal.status, category |-> goal.category,
     created_at |-> isoformat(goal.created_at),
     confidence |-> goal.confidence, rationale |-> goal.rationale]
Goal_from_dict(data, fresh, now) ==
    LET l == DictGet(data, "subgoals", <<>>)
        subgoals == [i \in 1..Len(l) |-> Subgoal_from_dict(l[i], fresh + i)]
        created_at == IF "created_at" \in DOMAIN data
                      THEN fromisoformat(data["created_at"]) ELSE now
    IN GoalInit(data["title"], DictGet(data, "description", ""), subgoals,
                DictGet(data, "status", "active"),
                DictGet(data, "category", "Academics"), created_at,
                DictGet(data, "id", NoId),
                DictGet(data, "confidence", DefaultConfidence),
                DictGet(data, "rationale", ""), fresh)

\* f"{subgoal.title}: {task.task}", as its parts
Label(title, text) == <<title, ": ", text>>

\* variant: the label carries the goal's title
LegacyTaskGoalLabel(goal, subgoal, task) ==
    [task |-> Label(goal.title, task.task), due |-> task.due,
     started |-> task.started, done |-> task.done,
     subtasks |-> [k \in 1..Len(task.subtasks) |-> task.subtasks[k].description],
     counted |-> task.counted, _goal_id |-> goal.id,
     _subgoal_id |-> subgoal.id, _task_id |-> task.id]
\* legacy_task of flatten_goal_to_legacy_tasks
LegacyTask(goal, subgoal, task) ==
    [task |-> Label(subgoal.title, task.task), due |-> task.due,
     started |-> task.started, done |-> task.done,
     subtasks |-> [k \in 1..Len(task.subtasks) |-> task.subtasks[k].description],
     counted |-> task.counted, _goal_id |-> goal.id,
     _subgoal_id |-> subgoal.id, _task_id |-> task.id]

\* legacy_tasks after the loop has gone through the first n subgoals
RECURSIVE LegacyTasks(_, _)
LegacyTasks(goal, n) ==
    IF n = 0 THEN <<>>
    ELSE LegacyTasks(goal, n - 1)
         \o [j \in 1..Len(goal.subgoals[n].tasks) |->
                LegacyTask(goal, goal.subgoals[n], goal.subgoals[n].tasks[j])]

\* flatten_goal_to_legacy_tasks
flatten_goal_to_legacy_tasks(goal) == LegacyTasks(goal, Len(goal.subgoals))
\* the pieces visualize_goal_tree draws with, three columns wide but for the
\* connectors, which are four: "  |" stands for the vertical bar, "  +-"
\* for the continuing connector, "  L-" for the closing connector
Bar == "  |"
Gap == "   "
Continuing == "  +-"
Closing == "  L-"
Checked == "[x]"
Unchecked == "[ ]"

\* f"{x:.0f}" of the fraction x: the nearest integer, a tie going to the even one
Format0f(x) ==
    LET q == x[1] \div x[2]
        r == x[1] % x[2]
    IN IF 2 * r < x[2] THEN q
       ELSE IF 2 * r > x[2] THEN q + 1
       ELSE IF q % 2 = 0 THEN q ELSE q + 1

\* a line is its prefix, piece by piece, and the parts of its text
Line(prefix, text) == [prefix |-> prefix, text |-> text]

\* the lines of the first n subtasks of a task
SubtaskLines(task, is_last_task, n) ==
    [k \in 1..n |->
        Line(IF is_last_task
             THEN IF k = Len(task.subtasks) THEN <<Gap, Closing>>
                  ELSE <<Gap, Continuing>>
             ELSE IF k = Len(task.subtasks) THEN <<Bar, Bar, Closing>>
                  ELSE <<Bar, Bar, Continuing>>,
             <<IF task.subtasks[k].done THEN Checked ELSE Unchecked,
               task.subtasks[k].description>>)]

\* the lines of the first n tasks of a subgoal, each followed by those of its subtasks
RECURSIVE TaskLines(_, _)
TaskLines(subgoal, n) ==
    IF n = 0 THEN <<>>
    ELSE LET task == subgoal.tasks[n]
             is_last_task == (n = Len(subgoal.tasks))
         IN TaskLines(subgoal, n - 1)
            \o <<Line(IF is_last_task THEN <<Bar, Closing>> ELSE <<Bar, Continuing>>,
                      <<IF task.done THEN Checked ELSE Unchecked, task.task,
                        task.estimated_minutes, "min">>)>>
            \o SubtaskLines(task, is_last_task, Len(task.subtasks))

\* the line of the i-th subgoal
SubgoalLine(goal, i) ==
    Line(<<Continuing>>,
         <<goal.subgoals[i].title, Len(goal.subgoals[i].tasks), "tasks">>)

\* the lines of the first n subgoals, each followed by those of its tasks
RECURSIVE SubgoalLines(_, _)
SubgoalLines(goal, n) ==
    IF n = 0 THEN <<>>
    ELSE SubgoalLines(goal, n - 1)
         \o <<SubgoalLine(goal, n)>>
         \o TaskLines(goal.subgoals[n], Len(goal.subgoals[n].tasks))

\* visualize_goal_tree: the lines that "\n".join(lines) puts together
visualize_goal_tree(goal) ==
    <<Line(<<>>, <<goal.title, Format0f(Goal_get_completion_percentage(goal)),
                   "% complete">>)>>
    \o SubgoalLines(goal, Len(goal.subgoals))

\* initial_state of decompose_goal_with_langgraph
InitialState(goal_text, category, user_feedback) ==
    [goal_text |-> goal_text,
     category |-> category,
     confidence |-> DefaultConfidence,
     rationale |-> "",
     parsed_goal_title |-> "",
     parsed_goal_description |-> "",
     subgoals_list |-> <<>>,
     current_subgoal_index |-> 0,
     generated_tasks |-> <<>>,
     user_feedback |-> user_feedback,
     final_goal |-> None,
     error |-> ""]

\* variant: the parse stage uses the feedback up
ParseSuccessConsumesFeedback(st, data) ==
    [st EXCEPT !.parsed_goal_title = Get(data, "title", st.goal_text),
               !.parsed_goal_description = Get(data, "description", ""),
               !.confidence = Get(data, "confidence", MissingConfidence),
               !.rationale = Get(data, "rationale", ""),
               !.user_feedback = <<>>]

\* parse_goal_node, try body
ParseSuccess(st, data) ==
    [st EXCEPT !.parsed_goal_title = Get(data, "title", st.goal_text),
               !.parsed_goal_description = Get(data, "description", ""),
               !.confidence = Get(data, "confidence", MissingConfidence),
               !.rationale = Get(data, "rationale", "")]

\* variant: the fallback also zeroes the confidence
ParseFailureResetsConfidence(st, e) ==
    [st EXCEPT !.parsed_goal_title = st.goal_text,
               !.parsed_goal_description = "",
               !.confidence = MissingConfidence,
               !.error = "Parse error: " \o e]

\* parse_goal_node, except body
ParseFailure(st, e) ==
    [st EXCEPT !.parsed_goal_title = st.goal_text,
               !.parsed_goal_description = "",
               !.error = "Parse error: " \o e]

parse_goal_node(st, r) ==
    IF r.ok THEN ParseSuccess(st, r.data) ELSE ParseFailure(st, r.e)

\* variant: a successful split clears the error note
SplitSuccessClearsError(st, data) ==
    [st EXCEPT !.subgoals_list = Get(data, "subgoals", <<>>),
               !.current_subgoal_index = 0,
               !.generated_tasks = <<>>,
               !.confidence = Get(data, "confidence", MissingConfidence),
               !.rationale = Get(data, "rationale", ""),
               !.error = ""]
\* variant: the split stage leaves confidence and rationale as they were
SplitSuccessKeepsConfidence(st, data) ==
    [st EXCEPT !.subgoals_list = Get(data, "subgoals", <<>>),
               !.current_subgoal_index = 0,
               !.generated_tasks = <<>>]
\* decompose_to_subgoals_node, try body
SplitSuccess(st, data) ==
    [st EXCEPT !.subgoals_list = Get(data, "subgoals", <<>>),
               !.current_subgoal_index = 0,
               !.generated_tasks = <<>>,
               !.confidence = Get(data, "confidence", MissingConfidence),
               !.rationale = Get(data, "rationale", "")]

\* variant: the fallback is one placeholder stub made from the goal itself
SplitFailurePlaceholder(st, e) ==
    [st EXCEPT !.subgoals_list = <<Stub({"title"}, st.parsed_goal_title, "")>>,
               !.error = "Subgoal decomposition error: " \o e]

\* variant: the fallback also zeroes the confidence
SplitFailureResetsConfidence(st, e) ==
    [st EXCEPT !.subgoals_list = <<>>,
               !.confidence = MissingConfidence,
               !.error = "Subgoal decomposition error: " \o e]

\* decompose_to_subgoals_node, except body
SplitFailure(st, e) ==
    [st EXCEPT !.subgoals_list = <<>>,
               !.error = "Subgoal decomposition error: " \o e]

decompose_to_subgoals_node(st, r) ==
    IF r.ok THEN SplitSuccess(st, r.data) ELSE SplitFailure(st, r.e)

\* generate_tasks_for_subgoal_node: the early return of lines 140-141
AllProcessed(st) == st.current_subgoal_index >= Len(st.subgoals_list)

\* generate_tasks_for_subgoal_node: current_subgoal.get(...) of lines 143-145
\* is outside the try; it raises AttributeError when the stub is not a dict
StubLookupRaises(st) ==
    /\ ~AllProcessed(st)
    /\ ~st.subgoals_list[st.current_subgoal_index + 1].isDict

\* variant: the cursor is advanced before the key is made
GenSuccessStoresAfterAdvance(st, data) ==
    [st EXCEPT !.generated_tasks =
                   DictSet(@, SubgoalKey(st.current_subgoal_index + 1),
                           Get(data, "tasks", <<>>)),
               !.confidence = Get(data, "confidence", MissingConfidence),
               !.rationale = Get(data, "rationale", ""),
               !.current_subgoal_index = @ + 1]
\* generate_tasks_for_subgoal_node, try body
GenSuccess(st, data) ==
    [st EXCEPT !.generated_tasks =
                   DictSet(@, SubgoalKey(st.current_subgoal_index),
                           Get(data, "tasks", <<>>)),
               !.confidence = Get(data, "confidence", MissingConfidence),
               !.rationale = Get(data, "rationale", ""),
               !.current_subgoal_index = @ + 1]

\* variant: a failed call stores an empty task list for the index
GenFailureStoresEmpty(st, e) ==
    [st EXCEPT !.error = "Task generation error: " \o e,
               !.generated_tasks =
                   DictSet(@, SubgoalKey(st.current_subgoal_index), <<>>)]
\* variant: the cursor advances after a failure as well
GenFailureAdvances(st, e) ==
    [st EXCEPT !.error = "Task generation error: " \o e,
               !.current_subgoal_index = @ + 1]

\* generate_tasks_for_subgoal_node, except body
GenFailure(st, e) ==
    [st EXCEPT !.error = "Task generation error: " \o e]

generate_tasks_for_subgoal_node(st, r) ==
    IF r.ok THEN GenSuccess(st, r.data) ELSE GenFailure(st, r.e)

\* variant: the loop is left as soon as one stub has its tasks
should_continue_task_generationFirstOnly(st) ==
    IF st.current_subgoal_index < Len(st.subgoals_list)
       /\ st.current_subgoal_index < 1
    THEN "continue" ELSE "finalize"
\* should_continue_task_generation
should_continue_task_generation(st) ==
    IF st.current_subgoal_index < Len(st.subgoals_list)
    THEN "continue" ELSE "finalize"

\* finalize_goal_node builds the tree with nested loops over the stubs, the
\* task list stored for each stub and the subtask strings of each task; every
\* add_subgoal, add_task and add_subtask appends at the end and takes the
\* next fresh id, so the n-th entity created gets the n-th id.
TasksData(st, i) == DictGet(st.generated_tasks, SubgoalKey(i), <<>>)
SubtaskDescs(task_data) == Get(task_data, "subtasks", <<>>)

\* ids taken by the first n entries of a task list (each Task and its Subtasks)
RECURSIVE IdsForTasks(_, _)
IdsForTasks(tasks_data, n) ==
    IF n = 0 THEN 0
    ELSE 1 + Len(SubtaskDescs(tasks_data[n])) + IdsForTasks(tasks_data, n - 1)

\* ids taken by the first n stubs (each Subgoal and everything below it)
RECURSIVE IdsForSubgoals(_, _)
IdsForSubgoals(st, n) ==
    IF n = 0 THEN 0
    ELSE 1 + IdsForTasks(TasksData(st, n - 1), Len(TasksData(st, n - 1)))
         + IdsForSubgoals(st, n - 1)

\* for subtask_desc in task_data.get("subtasks", []): task.add_subtask(...)
AssembledSubtasks(descs, task_id) ==
    [k \in 1..Len(descs) |-> NewSubtask(descs[k], task_id, task_id + k)]

\* task = subgoal.add_task(...), which stamps the subgoal's id and the
\* subgoal's parent goal id, followed by the subtask loop
AssembledTask(task_data, subgoal_id, goal_id, id) ==
    [NewTask(Get(task_data, "task", "Unnamed task"), subgoal_id, goal_id,
             Get(task_data, "estimated_minutes", DefaultEstimatedMinutes), id)
        EXCEPT !.subtasks = AssembledSubtasks(SubtaskDescs(task_data), id)]

\* variant: each new task is inserted in front of the earlier ones
AssembledTasksFront(tasks_data, subgoal_id, goal_id) ==
    [j \in 1..Len(tasks_data) |->
        AssembledTask(tasks_data[Len(tasks_data) + 1 - j], subgoal_id, goal_id,
                      subgoal_id + 1 + IdsForTasks(tasks_data, Len(tasks_data) - j))]

\* for task_data in tasks_data: ...
AssembledTasks(tasks_data, subgoal_id, goal_id) ==
    [j \in 1..Len(tasks_data) |->
        AssembledTask(tasks_data[j], subgoal_id, goal_id,
                      subgoal_id + 1 + IdsForTasks(tasks_data, j - 1))]

\* variant: a stub without a title is titled after the new Subgoal's id
AssembledSubgoalTitledById(st, i, goal_id) ==
    [NewSubgoal(Get(st.subgoals_list[i + 1], "title",
                    "Subgoal " \o ToString(goal_id + 1 + IdsForSubgoals(st, i))),
                goal_id, 1, goal_id + 1 + IdsForSubgoals(st, i))
        EXCEPT !.tasks = AssembledTasks(TasksData(st, i),
                                        goal_id + 1 + IdsForSubgoals(st, i),
                                        goal_id)]
\* subgoal = goal.add_subgoal(title=..., level=1) for the stub of 0-based
\* index i, followed by the task loop
AssembledSubgoal(st, i, goal_id) ==
    [NewSubgoal(Get(st.subgoals_list[i + 1], "title", "Subgoal " \o ToString(i + 1)),
                goal_id, 1, goal_id + 1 + IdsForSubgoals(st, i))
        EXCEPT !.tasks = AssembledTasks(TasksData(st, i),
                                        goal_id + 1 + IdsForSubgoals(st, i),
                                        goal_id)]

\* variant: confidence is not passed on, so Goal.__init__ uses its default
FinalizeNewGoalDefaultConfidence(st) ==
    NewGoal(st.parsed_goal_title, st.parsed_goal_description, st.category,
            "active", DefaultConfidence, st.rationale, 1)

\* finalize_goal_node: Goal(...) of lines 218-225
FinalizeNewGoal(st) ==
    NewGoal(st.parsed_goal_title, st.parsed_goal_description, st.category,
            "active", st.confidence, st.rationale, 1)

\* finalize_goal_node: .get on a stub or on a task entry that is not a dict
\* raises inside the try
AssemblyRaises(st) ==
    \E i \in 0..(Len(st.subgoals_list) - 1) :
        \/ ~st.subgoals_list[i + 1].isDict
        \/ LET tasks_data == DictGet(st.generated_tasks, SubgoalKey(i), <<>>)
           IN \E j \in 1..Len(tasks_data) : ~tasks_data[j].isDict

FinalizeSuccess(st) ==
    [st EXCEPT !.final_goal =
        Some([FinalizeNewGoal(st) EXCEPT !.subgoals =
                [i \in 1..Len(st.subgoals_list) |-> AssembledSubgoal(st, i - 1, 1)]])]

\* variant: the Goal built before the exception is stored as the final goal
FinalizeFailureKeepsGoal(st) ==
    [st EXCEPT !.final_goal = Some(FinalizeNewGoal(st)),
               !.error = "Finalization error: 'str' object has no attribute 'get'"]
FinalizeFailure(st) ==
    [st EXCEPT !.error = "Finalization error: 'str' object has no attribute 'get'"]

finalize_goal_node(st) ==
    IF AssemblyRaises(st) THEN FinalizeFailure(st) ELSE FinalizeSuccess(st)

\* ------------------------------------------------------------------------
\* The compiled graph (create_decomposition_graph)
\* ------------------------------------------------------------------------
EntryPoint == "parse_goal"
\* variant: the edge out of parse_goal bypasses decompose_to_subgoals
AfterParseSkipsSplit == "generate_tasks"
AfterParse == "decompose_to_subgoals"
AfterSplit == "generate_tasks"
AfterGenerate(st) ==
    IF should_continue_task_generation(st) = "continue"
    THEN "generate_tasks" ELSE "finalize"
AfterFinalize == "END"

\* ------------------------------------------------------------------------
\* State machine of one run of decompose_goal_with_langgraph
\* ------------------------------------------------------------------------
VARIABLES
    args,      \* goal_text, category, user_feedback passed to the entry point
    state,     \* the DecompositionState dict threaded through the nodes
    pc,        \* node about to run, "END", "returned" or "raised"
    ret,       \* value returned by the entry point
    last,      \* history: the node execution that just happened
    trace,     \* history: node executions in order; failed task-generation
               \* executions beyond MaxRetries are not appended
    twin,      \* a second run fed the same responses (TwinSpec)
    goal,      \* a Goal tree held by a caller of the entity model (TreeSpec)
    nextId,    \* the next uuid4 of that caller's process
    out,       \* what the last entity-model operation returned
    runs       \* two runs of the pipeline in one process (PairSpec)

vars == <<args, state, pc, ret, last, trace, twin, goal, nextId, out, runs>>
pipelineVars == <<args, state, pc, ret, last, trace>>
entityVars == <<goal, nextId, out>>

\* what a variable holds in a specification that does not use it
Unused == <<>>

\* a node execution: the node, the cursor it ran at, whether it issued a
\* completion call, whether it succeeded, and for a successful call whether
\* the response carried a confidence and what the stage stored
Exec(node, idx, called, ok, hasConf, confidence, rationale) ==
    [node |-> node, idx |-> idx, called |-> called, ok |-> ok,
     hasConf |-> hasConf, confidence |-> confidence, rationale |-> rationale]
NoCall(node, idx, ok) == Exec(node, idx, FALSE, ok, FALSE, 0, "")

IsFailedGen(e) == e.node = "generate_tasks" /\ e.called /\ ~e.ok
FailedGens(t) == Cardinality({k \in 1..Len(t) : IsFailedGen(t[k])})

Record(e) ==
    /\ last' = e
    /\ trace' = IF IsFailedGen(e) /\ FailedGens(trace) >= MaxRetries
                THEN trace ELSE Append(trace, e)

\* what a call contributes to the history; r is ExtractJson of the response
CallExec(node, idx, r) ==
    Exec(node, idx, TRUE, r.ok,
            r.ok /\ "confidence" \in r.data.has,
            Get(r.data, "confidence", MissingConfidence),
            Get(r.data, "rationale", ""))

Init ==
    /\ args \in [goal_text : GoalTexts, category : Categories, user_feedback : {Feedback}]
    /\ state = InitialState(args.goal_text, args.category, args.user_feedback)
    /\ pc = EntryPoint
    /\ ret = None
    /\ last = NoCall("start", 0, TRUE)
    /\ trace = <<>>
    /\ twin = Unused
    /\ goal = Unused
    /\ nextId = 0
    /\ out = Unused
    /\ runs = Unused

ParseGoal ==
    /\ pc = "parse_goal"
    /\ \E resp \in ParseResponses : \E r \in {ExtractJson(resp)} :
        /\ state' = parse_goal_node(state, r)
        /\ Record(CallExec("parse_goal", 0, r))
    /\ pc' = AfterParse
    /\ UNCHANGED <<args, ret>>
    /\ UNCHANGED <<twin, entityVars, runs>>

DecomposeToSubgoals ==
    /\ pc = "decompose_to_subgoals"
    /\ \E resp \in SplitResponses : \E r \in {ExtractJson(resp)} :
        /\ state' = decompose_to_subgoals_node(state, r)
        /\ Record(CallExec("decompose_to_subgoals", 0, r))
    /\ pc' = AfterSplit
    /\ UNCHANGED <<args, ret>>
    /\ UNCHANGED <<twin, entityVars, runs>>

\* generate_tasks with nothing left to process: returns the state untouched
GenerateTasksSkip ==
    /\ pc = "generate_tasks"
    /\ AllProcessed(state)
    /\ Record(NoCall("generate_tasks", state.current_subgoal_index, TRUE))
    /\ pc' = AfterGenerate(state)
    /\ UNCHANGED <<args, state, ret>>
    /\ UNCHANGED <<twin, entityVars, runs>>

\* generate_tasks on a stub that is not a dict: AttributeError leaves the
\* node, graph.invoke and the entry point
GenerateTasksRaise ==
    /\ pc = "generate_tasks"
    /\ StubLookupRaises(state)
    /\ Record(NoCall("generate_tasks", state.current_subgoal_index, FALSE))
    /\ pc' = "raised"
    /\ UNCHANGED <<args, state, ret>>
    /\ UNCHANGED <<twin, entityVars, runs>>

\* generate_tasks issuing its completion call
GenerateTasksCall ==
    /\ pc = "generate_tasks"
    /\ ~AllProcessed(state)
    /\ ~StubLookupRaises(state)
    /\ \E resp \in GenResponses : \E r \in {ExtractJson(resp)} :
        /\ state' = generate_tasks_for_subgoal_node(state, r)
        /\ Record(CallExec("generate_tasks", state.current_subgoal_index, r))
    /\ pc' = AfterGenerate(state')
    /\ UNCHANGED <<args, ret>>
    /\ UNCHANGED <<twin, entityVars, runs>>

Finalize ==
    /\ pc = "finalize"
    /\ state' = finalize_goal_node(state)
    /\ Record(NoCall("finalize", 0, state'.final_goal # None))
    /\ pc' = AfterFinalize
    /\ UNCHANGED <<args, ret>>
    /\ UNCHANGED <<twin, entityVars, runs>>

\* decompose_goal_with_langgraph: return result.get("final_goal")
Return ==
    /\ pc = "END"
    /\ ret' = state.final_goal
    /\ pc' = "returned"
    /\ UNCHANGED <<args, state, last, trace>>
    /\ UNCHANGED <<twin, entityVars, runs>>

Next ==
    \/ ParseGoal
    \/ DecomposeToSubgoals
    \/ GenerateTasksSkip
    \/ GenerateTasksRaise
    \/ GenerateTasksCall
    \/ Finalize
    \/ Return

Spec == Init /\ [][Next]_vars

\* the graph runner executes the next node whenever there is one
FairSpec == Spec /\ WF_vars(Next)

\* ------------------------------------------------------------------------
\* Two runs of decompose_goal_with_langgraph with the same arguments, fed
\* the same response at every stage.  The second run draws other uuid4
\* values and another datetime.now().
\* ------------------------------------------------------------------------
TwinGoalId == 101
TwinCreatedAt == "later"

\* finalize_goal_node in a run whose Goal gets the id goal_id at created_at
finalize_goal_node_at(st, goal_id, created_at) ==
    IF AssemblyRaises(st) THEN FinalizeFailure(st)
    ELSE [st EXCEPT !.final_goal =
            Some([FinalizeNewGoal(st) EXCEPT
                    !.id = goal_id,
                    !.created_at = created_at,
                    !.subgoals = [i \in 1..Len(st.subgoals_list) |->
                                    AssembledSubgoal(st, i - 1, goal_id)]])]

TwinInit ==
    /\ args \in [goal_text : GoalTexts, category : Categories, user_feedback : {Feedback}]
    /\ state = InitialState(args.goal_text, args.category, args.user_feedback)
    /\ pc = EntryPoint
    /\ ret = None
    /\ last = NoCall("start", 0, TRUE)
    /\ trace = <<>>
    /\ twin = [state |-> InitialState(args.goal_text, args.category, args.user_feedback),
               pc |-> EntryPoint, ret |-> None]
    /\ goal = Unused
    /\ nextId = 0
    /\ out = Unused
    /\ runs = Unused

TwinParseGoal ==
    /\ pc = "parse_goal"
    /\ twin.pc = "parse_goal"
    /\ \E resp \in ParseResponses : \E r \in {ExtractJson(resp)} :
        /\ state' = parse_goal_node(state, r)
        /\ twin' = [twin EXCEPT !.state = parse_goal_node(@, r), !.pc = AfterParse]
        /\ Record(CallExec("parse_goal", 0, r))
    /\ pc' = AfterParse
    /\ UNCHANGED <<args, ret, entityVars, runs>>

TwinDecomposeToSubgoals ==
    /\ pc = "decompose_to_subgoals"
    /\ twin.pc = "decompose_to_subgoals"
    /\ \E resp \in SplitResponses : \E r \in {ExtractJson(resp)} :
        /\ state' = decompose_to_subgoals_node(state, r)
        /\ twin' = [twin EXCEPT !.state = decompose_to_subgoals_node(@, r),
                                !.pc = AfterSplit]
        /\ Record(CallExec("decompose_to_subgoals", 0, r))
    /\ pc' = AfterSplit
    /\ UNCHANGED <<args, ret, entityVars, runs>>

TwinGenerateTasksSkip ==
    /\ pc = "generate_tasks"
    /\ twin.pc = "generate_tasks"
    /\ AllProcessed(state)
    /\ AllProcessed(twin.state)
    /\ Record(NoCall("generate_tasks", state.current_subgoal_index, TRUE))
    /\ pc' = AfterGenerate(state)
    /\ twin' = [twin EXCEPT !.pc = AfterGenerate(twin.state)]
    /\ UNCHANGED <<args, state, ret, entityVars, runs>>

TwinGenerateTasksRaise ==
    /\ pc = "generate_tasks"
    /\ twin.pc = "generate_tasks"
    /\ StubLookupRaises(state)
    /\ StubLookupRaises(twin.state)
    /\ Record(NoCall("generate_tasks", state.current_subgoal_index, FALSE))
    /\ pc' = "raised"
    /\ twin' = [twin EXCEPT !.pc = "raised"]
    /\ UNCHANGED <<args, state, ret, entityVars, runs>>

TwinGenerateTasksCall ==
    /\ pc = "generate_tasks"
    /\ twin.pc = "generate_tasks"
    /\ ~AllProcessed(state) /\ ~StubLookupRaises(state)
    /\ ~AllProcessed(twin.state) /\ ~StubLookupRaises(twin.state)
    /\ \E resp \in GenResponses : \E r \in {ExtractJson(resp)} :
        /\ state' = generate_tasks_for_subgoal_node(state, r)
        /\ twin' = [twin EXCEPT
                        !.state = generate_tasks_for_subgoal_node(@, r),
                        !.pc = AfterGenerate(generate_tasks_for_subgoal_node(twin.state, r))]
        /\ Record(CallExec("generate_tasks", state.current_subgoal_index, r))
    /\ pc' = AfterGenerate(state')
    /\ UNCHANGED <<args, ret, entityVars, runs>>

TwinFinalize ==
    /\ pc = "finalize"
    /\ twin.pc = "finalize"
    /\ state' = finalize_goal_node(state)
    /\ twin' = [twin EXCEPT
                    !.state = finalize_goal_node_at(@, TwinGoalId, TwinCreatedAt),
                    !.pc = AfterFinalize]
    /\ Record(NoCall("finalize", 0, state'.final_goal # None))
    /\ pc' = AfterFinalize
    /\ UNCHANGED <<args, ret, entityVars, runs>>

TwinReturn ==
    /\ pc = "END"
    /\ twin.pc = "END"
    /\ ret' = state.final_goal
    /\ twin' = [twin EXCEPT !.ret = twin.state.final_goal, !.pc = "returned"]
    /\ pc' = "returned"
    /\ UNCHANGED <<args, state, last, trace, entityVars, runs>>

TwinNext ==
    \/ TwinParseGoal
    \/ TwinDecomposeToSubgoals
    \/ TwinGenerateTasksSkip
    \/ TwinGenerateTasksRaise
    \/ TwinGenerateTasksCall
    \/ TwinFinalize
    \/ TwinReturn

TwinSpec == TwinInit /\ [][TwinNext]_vars

\* ------------------------------------------------------------------------
\* A caller of the entity model: it holds one Goal tree, calls the
\* factories, ticks the checkboxes of tasks and subtasks, asks for
\* percentages, updates statuses, saves and reloads the tree, and refines it.
\* ------------------------------------------------------------------------
WholeSecond == [sec |-> 1, micro |-> 0]
WithMicroseconds == [sec |-> 1, micro |-> 250]
SubgoalTitles == {"Plan"}
TaskArgs == {[task |-> "Read", due |-> "Today", estimated_minutes |-> NoMinutes]}
SubtaskDescriptions == {"step"}

\* a Goal constructed directly
FreshGoals ==
    {GoalInit("Exam prep", "", <<>>, "active", "Academics", WithMicroseconds,
              NoId, DefaultConfidence, "", 1)}

\* a Goal assembled by finalize: one stub, one task with two subtasks
AssembledState ==
    generate_tasks_for_subgoal_node(
        decompose_to_subgoals_node(
            parse_goal_node(InitialState("Prepare for Nov 2 exam", "Academics", Feedback),
                            ExtractJson(Plain(ParseFull))),
            ExtractJson(Plain(SplitDict({"subgoals", "confidence", "rationale"},
                                        GoodStubs(1))))),
        ExtractJson(Plain(GenDict({"tasks", "confidence", "rationale"},
                                  GoodTasks(1)))))
AssembledGoals ==
    {[finalize_goal_node(AssembledState).final_goal[1] EXCEPT
        !.created_at = WholeSecond]}

\* the ids of a tree, and the places that hold an entity
SubgoalIds(g) == {g.subgoals[i].id : i \in 1..Len(g.subgoals)}
TaskIds(g) ==
    UNION {{g.subgoals[i].tasks[j].id : j \in 1..Len(g.subgoals[i].tasks)} :
            i \in 1..Len(g.subgoals)}
SubtaskIds(g) ==
    UNION {UNION {{g.subgoals[i].tasks[j].subtasks[k].id :
                    k \in 1..Len(g.subgoals[i].tasks[j].subtasks)} :
                  j \in 1..Len(g.subgoals[i].tasks)} :
            i \in 1..Len(g.subgoals)}
AllIds(g) == {g.id} \cup SubgoalIds(g) \cup TaskIds(g) \cup SubtaskIds(g)
Places(g) ==
    {<<>>} \cup {<<i>> : i \in 1..Len(g.subgoals)}
    \cup UNION {{<<i, j>> : j \in 1..Len(g.subgoals[i].tasks)} :
                i \in 1..Len(g.subgoals)}
    \cup UNION {UNION {{<<i, j, k>> : k \in 1..Len(g.subgoals[i].tasks[j].subtasks)} :
                       j \in 1..Len(g.subgoals[i].tasks)} :
                i \in 1..Len(g.subgoals)}
MaxIdOf(g) == CHOOSE m \in AllIds(g) : \A x \in AllIds(g) : x <= m

\* a Goal loaded from a stored dict: the goal "archived", one subgoal
\* "paused", the other "completed" although its task is not done
StoredTask(id, parent_subgoal_id, text) ==
    [id |-> id, parent_subgoal_id |-> parent_subgoal_id, parent_goal_id |-> 1,
     task |-> text]
StoredDicts ==
    {[id |-> 1, title |-> "Loaded", status |-> "archived", created_at |-> <<1>>,
      subgoals |-> <<[id |-> 2, parent_goal_id |-> 1, title |-> "Plan",
                      status |-> "paused",
                      tasks |-> <<StoredTask(3, 2, "Read")>>],
                     [id |-> 4, parent_goal_id |-> 1, title |-> "Revise",
                      status |-> "completed",
                      tasks |-> <<StoredTask(5, 4, "Test")>>]>>]}
LoadedGoals == {Goal_from_dict(data, 0, WholeSecond) : data \in StoredDicts}

Out(op, at, val) == [op |-> op, at |-> at, val |-> val]
NoOut == Out("none", <<>>, 0)

TreeInit ==
    /\ goal \in FreshGoals \cup AssembledGoals \cup LoadedGoals
    /\ nextId = MaxIdOf(goal) + 1
    /\ out = NoOut
    /\ args = [goal_text |-> "", category |-> "Academics", user_feedback |-> <<>>]
    /\ state = InitialState("", "Academics", <<>>)
    /\ pc = "idle"
    /\ ret = None
    /\ last = NoCall("start", 0, TRUE)
    /\ trace = <<>>
    /\ twin = Unused
    /\ runs = Unused

\* goal.add_subgoal(title)
AddSubgoal ==
    /\ nextId <= MaxIds
    /\ \E title \in SubgoalTitles :
        LET r == add_subgoal(goal, title, 1, nextId)
        IN /\ goal' = r.self
           /\ out' = Out("add_subgoal", <<>>, r.ret)
    /\ nextId' = nextId + 1
    /\ UNCHANGED <<pipelineVars, twin, runs>>

\* goal.subgoals[i].add_task(task, due, estimated_minutes)
AddTask ==
    /\ nextId <= MaxIds
    /\ \E i \in 1..Len(goal.subgoals) : \E a \in TaskArgs :
        LET r == add_task(goal.subgoals[i], a.task, a.due, a.estimated_minutes, nextId)
        IN /\ goal' = [goal EXCEPT !.subgoals[i] = r.self]
           /\ out' = Out("add_task", <<i>>, r.ret)
    /\ nextId' = nextId + 1
    /\ UNCHANGED <<pipelineVars, twin, runs>>

\* goal.subgoals[i].tasks[j].add_subtask(description)
AddSubtask ==
    /\ nextId <= MaxIds
    /\ \E i \in 1..Len(goal.subgoals) : \E j \in 1..Len(goal.subgoals[i].tasks) :
       \E d \in SubtaskDescriptions :
        LET r == add_subtask(goal.subgoals[i].tasks[j], d, nextId)
        IN /\ goal' = [goal EXCEPT !.subgoals[i].tasks[j] = r.self]
           /\ out' = Out("add_subtask", <<i, j>>, r.ret)
    /\ nextId' = nextId + 1
    /\ UNCHANGED <<pipelineVars, twin, runs>>

\* task.started = <checkbox>
SetTaskStarted ==
    /\ \E i \in 1..Len(goal.subgoals) : \E j \in 1..Len(goal.subgoals[i].tasks) :
       \E b \in BOOLEAN :
        /\ goal' = [goal EXCEPT !.subgoals[i].tasks[j].started = b]
        /\ out' = Out("set_started", <<>>, 0)
    /\ UNCHANGED <<pipelineVars, twin, nextId, runs>>

\* task.done = <checkbox>
SetTaskDone ==
    /\ \E i \in 1..Len(goal.subgoals) : \E j \in 1..Len(goal.subgoals[i].tasks) :
       \E b \in BOOLEAN :
        /\ goal' = [goal EXCEPT !.subgoals[i].tasks[j].done = b]
        /\ out' = Out("set_done", <<i, j>>, b)
    /\ UNCHANGED <<pipelineVars, twin, nextId, runs>>

\* subtask.done = <checkbox>
SetSubtaskDone ==
    /\ \E i \in 1..Len(goal.subgoals) : \E j \in 1..Len(goal.subgoals[i].tasks) :
       \E k \in 1..Len(goal.subgoals[i].tasks[j].subtasks) : \E b \in BOOLEAN :
        /\ goal' = [goal EXCEPT !.subgoals[i].tasks[j].subtasks[k].done = b]
        /\ out' = Out("set_subtask_done", <<i, j, k>>, b)
    /\ UNCHANGED <<pipelineVars, twin, nextId, runs>>

\* goal.subgoals[i].tasks[j].get_completion_percentage()
TaskPercentage ==
    /\ \E i \in 1..Len(goal.subgoals) : \E j \in 1..Len(goal.subgoals[i].tasks) :
        out' = Out("task_percentage", <<i, j>>,
                   Task_get_completion_percentage(goal.subgoals[i].tasks[j]))
    /\ UNCHANGED <<pipelineVars, twin, goal, nextId, runs>>

\* goal.subgoals[i].get_completion_percentage()
SubgoalPercentage ==
    /\ \E i \in 1..Len(goal.subgoals) :
        out' = Out("subgoal_percentage", <<i>>,
                   Subgoal_get_completion_percentage(goal.subgoals[i]))
    /\ UNCHANGED <<pipelineVars, twin, goal, nextId, runs>>

\* completion = goal.get_completion_percentage();
\* completed = goal.get_completed_tasks(); total = goal.get_total_tasks()
GoalProgress ==
    /\ out' = Out("goal_progress", <<>>,
                  [completion |-> Goal_get_completion_percentage(goal),
                   completed |-> get_completed_tasks(goal),
                   total |-> get_total_tasks(goal)])
    /\ UNCHANGED <<pipelineVars, twin, goal, nextId, runs>>

\* goal.subgoals[i].update_status()
SubgoalUpdateStatus ==
    /\ \E i \in 1..Len(goal.subgoals) :
        /\ goal' = [goal EXCEPT !.subgoals[i] = Subgoal_update_status(@)]
        /\ out' = Out("update_status", <<i>>, 0)
    /\ UNCHANGED <<pipelineVars, twin, nextId, runs>>

\* goal.update_status()
GoalUpdateStatus ==
    /\ goal' = Goal_update_status(goal)
    /\ out' = Out("update_status", <<>>, 0)
    /\ UNCHANGED <<pipelineVars, twin, nextId, runs>>

\* Goal.from_dict(goal.to_dict()): the rebuilt tree is what is returned
RoundTrip ==
    /\ out' = Out("from_dict", <<>>,
                   Goal_from_dict(Goal_to_dict(goal), nextId, WithMicroseconds))
    /\ UNCHANGED <<pipelineVars, twin, goal, nextId, runs>>

\* flatten_goal_to_legacy_tasks(goal)
Flatten ==
    /\ out' = Out("flatten", <<>>, flatten_goal_to_legacy_tasks(goal))
    /\ UNCHANGED <<pipelineVars, twin, goal, nextId, runs>>

\* visualize_goal_tree(goal)
Render ==
    /\ out' = Out("render", <<>>, visualize_goal_tree(goal))
    /\ UNCHANGED <<pipelineVars, twin, goal, nextId, runs>>

\* what the completion service may answer to a refinement prompt
Adjustments(has, add_subgoals, remove_subgoal_indices) ==
    [has |-> has, add_subgoals |-> add_subgoals,
     remove_subgoal_indices |-> remove_subgoal_indices]
RefineResponses ==
    {ServiceError, EmptyObject}
    \cup {Plain(Adjustments({"add_subgoals", "remove_subgoal_indices"}, a, r)) :
            a \in {<<>>, <<"Extra">>},
            r \in {<<>>, <<0>>, <<0, 1>>, <<0, 0>>, <<7>>}}

\* for title in titles: goal.add_subgoal(title), the first n of them
RECURSIVE AddSubgoals(_, _, _, _)
AddSubgoals(g, titles, n, fresh) ==
    IF n = 0 THEN g
    ELSE add_subgoal(AddSubgoals(g, titles, n - 1, fresh), titles[n], 1,
                     fresh + n - 1).self

\* sorted(l, reverse=True)
RECURSIVE SortedReverse(_)
SortedReverse(l) ==
    IF Len(l) = 0 THEN <<>>
    ELSE LET m == CHOOSE i \in 1..Len(l) : \A j \in 1..Len(l) : l[j] <= l[i]
         IN <<l[m]>> \o SortedReverse(SubSeq(l, 1, m - 1) \o SubSeq(l, m + 1, Len(l)))

\* for idx in idxs: if 0 <= idx < len(subgoals): subgoals.pop(idx)
RECURSIVE PopEach(_, _, _)
PopEach(subgoals, idxs, n) ==
    IF n = 0 THEN subgoals
    ELSE LET prev == PopEach(subgoals, idxs, n - 1)
             idx == idxs[n]
         IN IF 0 <= idx /\ idx < Len(prev)
            THEN SubSeq(prev, 1, idx) \o SubSeq(prev, idx + 2, Len(prev))
            ELSE prev

\* refine_goal_with_feedback; r is ExtractJson of the response
refine_goal_with_feedback(g, r, fresh) ==
    IF ~r.ok THEN g
    ELSE LET titles == Get(r.data, "add_subgoals", <<>>)
             idxs == SortedReverse(Get(r.data, "remove_subgoal_indices", <<>>))
             added == AddSubgoals(g, titles, Len(titles), fresh)
         IN Goal_update_status(
                [added EXCEPT !.subgoals = PopEach(@, idxs, Len(idxs))])

\* the adjustments a response asks for, as the loops of lines 393 and 397
\* read them
Requested(r) ==
    [ok |-> r.ok,
     add_subgoals |-> IF r.ok THEN Get(r.data, "add_subgoals", <<>>) ELSE <<>>,
     remove_subgoal_indices |->
        IF r.ok THEN Get(r.data, "remove_subgoal_indices", <<>>) ELSE <<>>]

RefineGoal ==
    /\ \E resp \in RefineResponses : \E r \in {ExtractJson(resp)} :
        LET n == Len(Requested(r).add_subgoals)
        IN /\ nextId + n - 1 <= MaxIds
           /\ goal' = refine_goal_with_feedback(goal, r, nextId)
           /\ nextId' = nextId + n
           /\ out' = Out("refine", <<>>, Requested(r))
    /\ UNCHANGED <<pipelineVars, twin, runs>>

TreeNext ==
    \/ AddSubgoal
    \/ AddTask
    \/ AddSubtask
    \/ SetTaskStarted
    \/ SetTaskDone
    \/ SetSubtaskDone
    \/ TaskPercentage
    \/ SubgoalPercentage
    \/ GoalProgress
    \/ SubgoalUpdateStatus
    \/ GoalUpdateStatus
    \/ RoundTrip
    \/ Flatten
    \/ Render
    \/ RefineGoal

TreeSpec == TreeInit /\ [][TreeNext]_vars

\* ------------------------------------------------------------------------
\* Two calls of decompose_goal_with_langgraph in one process, their node
\* executions interleaved in any order.  The dicts the calls create live
\* in a heap and a call holds a reference to its own; each call gets its
\* own responses from the completion service.
\* ------------------------------------------------------------------------
Runs == {1, 2}
RunArgs(r) ==
    [goal_text |-> "Prepare for Nov 2 exam",
     category |-> IF r = 1 THEN "Academics" ELSE "Sports",
     user_feedback |-> Feedback]
RunGoalId(r) == 100 * r
RunCreatedAt(r) == IF r = 1 THEN "now" ELSE "later"

\* what the completion service may answer to a run's prompts
RunParseResponses == {ServiceError, Plain(ParseFull)}
RunSplitResponses ==
    {ServiceError,
     Plain(SplitDict({"subgoals", "confidence", "rationale"}, GoodStubs(1))),
     Plain(SplitDict({"subgoals", "confidence", "rationale"},
                     <<StubString("Review material")>>))}
RunGenResponses ==
    {ServiceError, Plain(GenDict({"tasks", "confidence", "rationale"}, GoodTasks(1)))}

\* variant: the state dict is one module-level object, reset by each call
AllocateShared(heap, value) ==
    IF Len(heap) = 0 THEN [heap |-> <<value>>, ref |-> 1]
    ELSE [heap |-> [heap EXCEPT ![1] = value], ref |-> 1]
\* initial_state = {...}: the dict display creates a new object
Allocate(heap, value) == [heap |-> Append(heap, value), ref |-> Len(heap) + 1]

\* a run alone: graph.invoke executes the nodes one after the other, the
\* calls getting the responses outs in order; what the entry point returns
RECURSIVE Invoke(_, _, _)
Invoke(st, node, outs) ==
    IF node = "parse_goal"
    THEN Invoke(parse_goal_node(st, Head(outs)), AfterParse, Tail(outs))
    ELSE IF node = "decompose_to_subgoals"
    THEN Invoke(decompose_to_subgoals_node(st, Head(outs)), AfterSplit, Tail(outs))
    ELSE IF node = "generate_tasks"
    THEN IF AllProcessed(st) THEN Invoke(st, AfterGenerate(st), outs)
         ELSE IF StubLookupRaises(st) THEN [raised |-> TRUE, state |-> st]
         ELSE Invoke(generate_tasks_for_subgoal_node(st, Head(outs)),
                     AfterGenerate(generate_tasks_for_subgoal_node(st, Head(outs))),
                     Tail(outs))
    ELSE IF node = "finalize"
    THEN Invoke(finalize_goal_node(st), AfterFinalize, outs)
    ELSE [raised |-> FALSE, state |-> st]

Started(r) == runs.ref[r] # 0
StateOf(r) == runs.heap[runs.ref[r]]
FailedGenCalls(r) ==
    Cardinality({k \in 1..Len(runs.fed[r]) :
                    runs.nodes[r][k] = "generate_tasks" /\ ~runs.fed[r][k].ok})

PairInit ==
    /\ runs = [heap |-> <<>>,
               ref |-> [r \in Runs |-> 0],
               pc |-> [r \in Runs |-> "idle"],
               ret |-> [r \in Runs |-> None],
               fed |-> [r \in Runs |-> <<>>],
               nodes |-> [r \in Runs |-> <<>>],
               turn |-> 0]
    /\ args = Unused
    /\ state = Unused
    /\ pc = "idle"
    /\ ret = None
    /\ last = NoCall("start", 0, TRUE)
    /\ trace = <<>>
    /\ twin = Unused
    /\ goal = Unused
    /\ nextId = 0
    /\ out = Unused

\* run r's node has run: its dict is st, its next node is node
Stepped(r, st, node) ==
    [runs EXCEPT !.heap[runs.ref[r]] = st, !.pc[r] = node, !.turn = r]
\* the same, the node having made a call that was answered with o
Called(r, st, node, o) ==
    [Stepped(r, st, node) EXCEPT !.fed[r] = Append(@, o),
                                 !.nodes[r] = Append(@, runs.pc[r])]

\* decompose_goal_with_langgraph(...) up to graph.invoke(initial_state)
RunCall(r) ==
    /\ runs.pc[r] = "idle"
    /\ \E a \in {Allocate(runs.heap,
                          InitialState(RunArgs(r).goal_text, RunArgs(r).category,
                                       RunArgs(r).user_feedback))} :
        runs' = [runs EXCEPT !.heap = a.heap, !.ref[r] = a.ref,
                             !.pc[r] = EntryPoint, !.turn = r]
    /\ UNCHANGED <<pipelineVars, twin, entityVars>>

RunParseGoal(r) ==
    /\ runs.pc[r] = "parse_goal"
    /\ \E resp \in RunParseResponses : \E o \in {ExtractJson(resp)} :
        runs' = Called(r, parse_goal_node(StateOf(r), o), AfterParse, o)
    /\ UNCHANGED <<pipelineVars, twin, entityVars>>

RunDecomposeToSubgoals(r) ==
    /\ runs.pc[r] = "decompose_to_subgoals"
    /\ \E resp \in RunSplitResponses : \E o \in {ExtractJson(resp)} :
        runs' = Called(r, decompose_to_subgoals_node(StateOf(r), o), AfterSplit, o)
    /\ UNCHANGED <<pipelineVars, twin, entityVars>>

RunGenerateTasksSkip(r) ==
    /\ runs.pc[r] = "generate_tasks"
    /\ AllProcessed(StateOf(r))
    /\ runs' = Stepped(r, StateOf(r), AfterGenerate(StateOf(r)))
    /\ UNCHANGED <<pipelineVars, twin, entityVars>>

RunGenerateTasksRaise(r) ==
    /\ runs.pc[r] = "generate_tasks"
    /\ StubLookupRaises(StateOf(r))
    /\ runs' = Stepped(r, StateOf(r), "raised")
    /\ UNCHANGED <<pipelineVars, twin, entityVars>>

RunGenerateTasksCall(r) ==
    /\ runs.pc[r] = "generate_tasks"
    /\ ~AllProcessed(StateOf(r))
    /\ ~StubLookupRaises(StateOf(r))
    /\ \E resp \in RunGenResponses : \E o \in {ExtractJson(resp)} :
        /\ ~o.ok => FailedGenCalls(r) < MaxRetries
        /\ \E st \in {generate_tasks_for_subgoal_node(StateOf(r), o)} :
            runs' = Called(r, st, AfterGenerate(st), o)
    /\ UNCHANGED <<pipelineVars, twin, entityVars>>

RunFinalize(r) ==
    /\ runs.pc[r] = "finalize"
    /\ runs' = Stepped(r, finalize_goal_node_at(StateOf(r), RunGoalId(r), RunCreatedAt(r)),
                       AfterFinalize)
    /\ UNCHANGED <<pipelineVars, twin, entityVars>>

RunReturn(r) ==
    /\ runs.pc[r] = "END"
    /\ runs' = [runs EXCEPT !.ret[r] = StateOf(r).final_goal,
                            !.pc[r] = "returned", !.turn = r]
    /\ UNCHANGED <<pipelineVars, twin, entityVars>>

PairNext ==
    \E r \in Runs :
        \/ RunCall(r)
        \/ RunParseGoal(r)
        \/ RunDecomposeToSubgoals(r)
        \/ RunGenerateTasksSkip(r)
        \/ RunGenerateTasksRaise(r)
        \/ RunGenerateTasksCall(r)
        \/ RunFinalize(r)
        \/ RunReturn(r)

PairSpec == PairInit /\ [][PairNext]_vars

\* ------------------------------------------------------------------------
\* Properties
\* ------------------------------------------------------------------------
HasGoal == state.final_goal # None
TheGoal == state.final_goal[1]
Stubs == state.subgoals_list
Cursor == state.current_subgoal_index

\* the task-generation executions of the history that issued a call
GenCalls(t) == SelectSeq(t, LAMBDA e : e.node = "generate_tasks" /\ e.called)
GenCallIndices(t) == [k \in 1..Len(GenCalls(t)) |-> GenCalls(t)[k].idx]
RanFinalize(t) == \E k \in 1..Len(t) : t[k].node = "finalize"
ParseFailed == Len(trace) >= 1 /\ ~trace[1].ok
SplitFailed == Len(trace) >= 2 /\ ~trace[2].ok

\* C1: every run comes to an end, whatever the completion calls do, including
\* a stub index whose call fails every time: it executes finalize and returns
\* (a run ended by an escaping exception is the subject of C4 and is not
\* counted against termination here); the loop never runs forever.
C1_RunTerminates ==
    <>((pc = "returned" /\ RanFinalize(trace)) \/ pc = "raised")

\* C2: once the split stage has stored N stubs, a run in which no
\* task-generation call fails issues exactly N calls, for indices 0..N-1 in
\* increasing order, and then passes to finalize.
C2_OneCallPerStub ==
    (Len(trace) >= 2 /\ FailedGens(trace) = 0) =>
        /\ pc # "raised"
        /\ GenCallIndices(trace) = [k \in 1..Cursor |-> k - 1]
        /\ Cursor <= Len(Stubs)
        /\ (pc \in {"finalize", "END", "returned"} =>
                GenCallIndices(trace) = [k \in 1..Len(Stubs) |-> k - 1])
        /\ (pc = "generate_tasks" /\ Len(trace) >= 3 => Cursor < Len(Stubs))

\* C3: a task-generation call that fails at cursor i records an error note,
\* leaves the cursor at i and the stored task lists, confidence and rationale
\* as they were, and the next execution of the stage calls for index i again.
C3_FailureKeepsCursor ==
    /\ [][(pc = "generate_tasks" /\ IsFailedGen(last')) =>
            /\ state'.error # ""
            /\ state'.current_subgoal_index = state.current_subgoal_index
            /\ last'.idx = state.current_subgoal_index
            /\ state'.generated_tasks = state.generated_tasks
            /\ state'.confidence = state.confidence
            /\ state'.rationale = state.rationale
            /\ pc' = "generate_tasks"]_vars
    /\ [][(pc = "generate_tasks" /\ IsFailedGen(last)) =>
            (last'.node = "generate_tasks" /\ last'.called
             /\ last'.idx = last.idx)]_vars

C3_Witness ==
    /\ IsFailedGen(last)
    /\ last.idx = 1
    /\ FailedGens(trace) >= 2
    /\ trace[Len(trace)].idx = 1
    /\ trace[Len(trace) - 1].idx = 1
    /\ SubgoalKey(0) \in DOMAIN state.generated_tasks

\* C4: no exception leaves decompose_goal_with_langgraph.
C4_NoExceptionEscapes == pc # "raised"

\* C5: the stages run in the order parse, split, task generation (any number
\* of times), finalize: parse once and first, split once and second, finalize
\* at most once, last, and only when the loop has been left.
C5_StageOrder ==
    /\ (pc = EntryPoint) = (trace = <<>>)
    /\ (pc = "decompose_to_subgoals") = (Len(trace) = 1)
    /\ \A k \in 1..Len(trace) :
        /\ (trace[k].node = "parse_goal") = (k = 1)
        /\ (trace[k].node = "decompose_to_subgoals") = (k = 2)
        /\ trace[k].node \in {"parse_goal", "decompose_to_subgoals",
                              "generate_tasks", "finalize"}
        /\ trace[k].node = "finalize" =>
            /\ k = Len(trace)
            /\ k >= 4
            /\ trace[k - 1].node = "generate_tasks"
            /\ last = trace[k]
            /\ AllProcessed(state)
    /\ pc \in {"END", "returned"} => RanFinalize(trace)
    /\ pc \in {"parse_goal", "decompose_to_subgoals", "generate_tasks",
               "finalize", "raised"} => ~RanFinalize(trace)

C5_Witness ==
    /\ pc = "returned"
    /\ Len(trace) = 2 + MaxStubs + MaxRetries + 1
    /\ RanFinalize(trace)

\* the last execution of the history whose completion call succeeded
OkCalls(t) == SelectSeq(t, LAMBDA e : e.called /\ e.ok)
LastOkConfidence(t) ==
    IF OkCalls(t) = <<>> THEN DefaultConfidence
    ELSE OkCalls(t)[Len(OkCalls(t))].confidence
LastOkRationale(t) ==
    IF OkCalls(t) = <<>> THEN ""
    ELSE OkCalls(t)[Len(OkCalls(t))].rationale

\* C6: a failed parse stage sets the parsed title to the raw goal text and
\* the parsed description to empty, records an error note and leaves
\* confidence 5 and the empty rationale in place; the Goal that finalize then
\* builds has the raw goal text as its title.
C6_ParseFallback ==
    /\ [][(pc = "parse_goal" /\ ~last'.ok) =>
            /\ state'.parsed_goal_title = args.goal_text
            /\ state'.parsed_goal_description = ""
            /\ state'.error # ""
            /\ state'.confidence = DefaultConfidence
            /\ state'.rationale = ""]_vars
    /\ []((ParseFailed /\ HasGoal) => TheGoal.title = args.goal_text)
    /\ []((ParseFailed /\ pc = "returned" /\ ret # None) =>
            ret[1].title = args.goal_text)

C6_Witness ==
    /\ ParseFailed
    /\ pc = "returned"
    /\ ret # None
    /\ ret[1].title = "Prepare for Nov 2 exam"
    /\ Len(ret[1].subgoals) = MaxStubs

\* C7: a failed split stage leaves the stub list empty and records an error
\* note; no task-generation call is then issued, finalize is reached and the
\* Goal has zero subgoals.
C7_SplitFallback ==
    /\ [][(pc = "decompose_to_subgoals" /\ ~last'.ok) =>
            (state'.subgoals_list = <<>> /\ state'.error # "")]_vars
    /\ [](SplitFailed =>
            /\ GenCalls(trace) = <<>>
            /\ pc # "raised"
            /\ Stubs = <<>>
            /\ state.error # ""
            /\ (RanFinalize(trace) => (HasGoal /\ TheGoal.subgoals = <<>>))
            /\ (pc = "returned" => (ret # None /\ ret[1].subgoals = <<>>)))
    /\ (SplitFailed ~> (pc = "returned" /\ RanFinalize(trace)))

C7_Witness ==
    /\ SplitFailed
    /\ pc = "returned"
    /\ ret # None
    /\ ret[1].subgoals = <<>>
    /\ Len(trace) = 4

\* C8: the Goal built by finalize has the parsed title and description, the
\* category given to the entry point, status "active", and the confidence and
\* rationale stored by the last stage whose call succeeded (5 and empty when
\* none did).
C8_GoalFields ==
    HasGoal =>
        /\ TheGoal.title = state.parsed_goal_title
        /\ TheGoal.description = state.parsed_goal_description
        /\ TheGoal.category = args.category
        /\ TheGoal.status = "active"
        /\ TheGoal.confidence = LastOkConfidence(trace)
        /\ TheGoal.rationale = LastOkRationale(trace)
        /\ (pc = "returned" => ret = state.final_goal)

C8_Witness ==
    /\ pc = "returned"
    /\ ret # None
    /\ ret[1].category = "Sports"
    /\ ret[1].title = "Exam prep"
    /\ ret[1].confidence = 6
    /\ FailedGens(trace) >= 1

\* C9: when the parse response carries confidence c and the later successful
\* split and task-generation responses carry no confidence, the final
\* Goal.confidence is c.
C9_ConfidencePreserved ==
    (/\ pc = "returned"
     /\ ret # None
     /\ \A k \in 1..Len(trace) : trace[k].called => trace[k].ok
     /\ trace[1].hasConf
     /\ \A k \in 2..Len(trace) : ~trace[k].hasConf)
    => ret[1].confidence = trace[1].confidence

\* sum of the lengths of the task lists stored for stub indices 0..n-1
RECURSIVE StoredTasks(_, _)
StoredTasks(st, n) ==
    IF n = 0 THEN 0
    ELSE Len(DictGet(st.generated_tasks, SubgoalKey(n - 1), <<>>))
         + StoredTasks(st, n - 1)

\* C10: when finalize succeeds the Goal has one Subgoal per stub in stub
\* order; Subgoal i has one Task per entry of the task list stored for stub
\* index i, in order, each with one Subtask per subtask string in order; so
\* get_total_tasks() is the sum of the lengths of the stored task lists.
C10_TreeMatchesLists ==
    HasGoal =>
        /\ Len(TheGoal.subgoals) = Len(Stubs)
        /\ \A i \in 1..Len(Stubs) :
            LET sg == TheGoal.subgoals[i]
                td == DictGet(state.generated_tasks, SubgoalKey(i - 1), <<>>)
            IN /\ sg.title = Get(Stubs[i], "title", "Subgoal " \o ToString(i))
               /\ Len(sg.tasks) = Len(td)
               /\ \A j \in 1..Len(td) :
                    LET t == sg.tasks[j]
                        descs == Get(td[j], "subtasks", <<>>)
                    IN /\ t.task = Get(td[j], "task", "Unnamed task")
                       /\ t.estimated_minutes =
                            Get(td[j], "estimated_minutes", DefaultEstimatedMinutes)
                       /\ Len(t.subtasks) = Len(descs)
                       /\ \A k \in 1..Len(descs) :
                            t.subtasks[k].description = descs[k]
        /\ get_total_tasks(TheGoal) = StoredTasks(state, Len(Stubs))

C10_Witness ==
    /\ pc = "returned"
    /\ ret # None
    /\ Len(ret[1].subgoals) = MaxStubs
    /\ get_total_tasks(ret[1]) = MaxStubs * MaxTasks
    /\ Len(ret[1].subgoals[1].tasks[1].subtasks) = 2
    /\ ret[1].subgoals[1].tasks[2].task = "Unnamed task"

\* the error notes a caller can read off the final state: state["error"] is
\* one string, empty when nothing was recorded
ErrorNotes(st) == IF st.error = "" THEN {} ELSE {st.error}
Messages == {"service unavailable", "substring not found", "Expecting value"}
NotesOf(prefix) == {prefix \o e : e \in Messages}
FinalizeNote == "Finalization error: 'str' object has no attribute 'get'"
FinalizeFailed == \E k \in 1..Len(trace) : trace[k].node = "finalize" /\ ~trace[k].ok

\* C11: when entity assembly in finalize raises, the exception is caught (the
\* run goes on to END), an error note is recorded and nothing else of the
\* state changes, so the final goal stays null and the entry point returns
\* null; a non-null final goal always carries the whole tree, one Subgoal per
\* stub and one Task per stored task entry.
C11_NoPartialGoal ==
    /\ [][(pc = "finalize" /\ AssemblyRaises(state)) =>
            /\ pc' = "END"
            /\ state' = [state EXCEPT !.error = FinalizeNote]
            /\ state'.final_goal = None]_vars
    /\ [](FinalizeFailed => ~HasGoal /\ (pc = "returned" => ret = None))
    /\ [](HasGoal =>
            /\ ~AssemblyRaises(state)
            /\ Len(TheGoal.subgoals) = Len(Stubs)
            /\ get_total_tasks(TheGoal) = StoredTasks(state, Len(Stubs)))
    /\ [](pc = "returned" => ret = state.final_goal)

C11_Witness ==
    /\ pc = "returned"
    /\ FinalizeFailed
    /\ ret = None
    /\ state.error = FinalizeNote
    /\ Len(Stubs) > 0

\* C12: every failure of a run stays observable in the recorded error notes
\* at the end of the run: a failed parse, a failed split and a failed
\* finalize each still have their note there, whatever failed afterwards.
C12_ErrorsAccumulate ==
    pc = "returned" =>
        /\ (ParseFailed => NotesOf("Parse error: ") \cap ErrorNotes(state) # {})
        /\ (SplitFailed =>
                NotesOf("Subgoal decomposition error: ") \cap ErrorNotes(state) # {})
        /\ (FinalizeFailed => FinalizeNote \in ErrorNotes(state))

\* the categories the application knows
ValidCategories == {"Academics", "Personal", "Hobbies", "Future/Long-term Goals"}

\* C14: the category of every Goal the pipeline produces is one of the four
\* known categories; a value outside the set is never copied into the Goal.
C14_CategoryValid ==
    /\ (HasGoal => TheGoal.category \in ValidCategories)
    /\ (ret # None => ret[1].category \in ValidCategories)

\* a Goal tree without its generated identifiers (ids and back-references)
\* and its timestamp
WithoutIds(g) ==
    [title |-> g.title, description |-> g.description, status |-> g.status,
     category |-> g.category, confidence |-> g.confidence,
     rationale |-> g.rationale,
     subgoals |-> [i \in 1..Len(g.subgoals) |->
        [title |-> g.subgoals[i].title, level |-> g.subgoals[i].level,
         status |-> g.subgoals[i].status,
         tasks |-> [j \in 1..Len(g.subgoals[i].tasks) |->
            LET t == g.subgoals[i].tasks[j]
            IN [task |-> t.task, due |-> t.due, started |-> t.started,
                done |-> t.done, counted |-> t.counted,
                estimated_minutes |-> t.estimated_minutes,
                subtasks |-> [k \in 1..Len(t.subtasks) |->
                    [description |-> t.subtasks[k].description,
                     done |-> t.subtasks[k].done]]]]]]]

\* C13: two runs given the same goal text, category and feedback and the same
\* response at every completion call stay in step, hold the same pipeline
\* state, and return Goal trees (or both null) that are equal in every field
\* except the generated identifiers and the timestamp.
C13_Deterministic ==
    /\ twin.pc = pc
    /\ [twin.state EXCEPT !.final_goal = None] = [state EXCEPT !.final_goal = None]
    /\ (twin.state.final_goal = None) <=> (state.final_goal = None)
    /\ HasGoal => WithoutIds(twin.state.final_goal[1]) = WithoutIds(TheGoal)
    /\ (twin.ret = None) <=> (ret = None)
    /\ ret # None => WithoutIds(twin.ret[1]) = WithoutIds(ret[1])

C13_Witness ==
    /\ pc = "returned"
    /\ ret # None
    /\ twin.ret # None
    /\ twin.ret[1].id # ret[1].id
    /\ twin.ret[1].created_at # ret[1].created_at
    /\ Len(ret[1].subgoals) = MaxStubs
    /\ twin.ret[1].subgoals[2].id # ret[1].subgoals[2].id
    /\ ret[1].subgoals[2].title = "Subgoal 2"
    /\ get_total_tasks(ret[1]) > 0

\* every entity of a tree is held at exactly one place and has its own id
DistinctIds(g) == Cardinality(AllIds(g)) = Cardinality(Places(g))

\* the back-references of a tree resolve to the owners
BackReferencesResolve(g) ==
    \A i \in 1..Len(g.subgoals) :
        LET sg == g.subgoals[i]
        IN /\ sg.parent_goal_id = g.id
           /\ \A j \in 1..Len(sg.tasks) :
                LET t == sg.tasks[j]
                IN /\ t.parent_subgoal_id = sg.id
                   /\ t.parent_goal_id = g.id
                   /\ \A k \in 1..Len(t.subtasks) :
                        t.subtasks[k].parent_task_id = t.id

\* C15: each factory call constructs exactly one entity with a fresh id and
\* no children, stamps it with the caller's id (a Task with the subgoal's id
\* and the subgoal's parent goal id), appends it at the end of the caller's
\* sequence, returns it, and changes nothing else of the tree: the children
\* owned before keep their places.
C15_FactoriesAppend ==
    [][/\ (out'.op = "add_subgoal" =>
            LET new == out'.val
            IN /\ goal' = [goal EXCEPT !.subgoals = Append(@, new)]
               /\ new.parent_goal_id = goal.id
               /\ new.id \notin AllIds(goal)
               /\ Len(new.tasks) = 0
               /\ Cardinality(Places(goal')) = Cardinality(Places(goal)) + 1)
       /\ (out'.op = "add_task" =>
            LET new == out'.val
                i == out'.at[1]
            IN /\ goal' = [goal EXCEPT !.subgoals[i].tasks = Append(@, new)]
               /\ new.parent_subgoal_id = goal.subgoals[i].id
               /\ new.parent_goal_id = goal.subgoals[i].parent_goal_id
               /\ new.id \notin AllIds(goal)
               /\ Len(new.subtasks) = 0
               /\ Cardinality(Places(goal')) = Cardinality(Places(goal)) + 1)
       /\ (out'.op = "add_subtask" =>
            LET new == out'.val
                i == out'.at[1]
                j == out'.at[2]
            IN /\ goal' = [goal EXCEPT !.subgoals[i].tasks[j].subtasks = Append(@, new)]
               /\ new.parent_task_id = goal.subgoals[i].tasks[j].id
               /\ new.id \notin AllIds(goal)
               /\ Cardinality(Places(goal')) = Cardinality(Places(goal)) + 1)]_vars

C15_Witness ==
    /\ out.op = "add_task"
    /\ Len(goal.subgoals) = 1
    /\ Len(goal.subgoals[1].tasks) = 2
    /\ goal.subgoals[1].tasks[2] = out.val
    /\ goal.subgoals[1].tasks[1].done

\* C16: in every tree reachable from a fresh Goal or from a Goal assembled by
\* finalize through the factories and the flag mutations, every Subgoal
\* refers to the Goal, every Task to its Subgoal and to the Goal, every
\* Subtask to its Task, and no entity is held at two places.
C16_BackReferences ==
    /\ BackReferencesResolve(goal)
    /\ DistinctIds(goal)

C16_Witness ==
    /\ Len(goal.subgoals) = 1
    /\ Len(goal.subgoals[1].tasks) = 1
    /\ Len(goal.subgoals[1].tasks[1].subtasks) = 1
    /\ goal.subgoals[1].tasks[1].subtasks[1].done
    /\ goal.subgoals[1].tasks[1].started
    /\ goal.id = 1
    /\ goal.subgoals[1].tasks[1].subtasks[1].id = 4

\* the ids of a sequence of entities, in order
IdsOf(seq) == [n \in 1..Len(seq) |-> seq[n].id]
\* s is t with some elements left out
RECURSIVE IsSubsequence(_, _)
IsSubsequence(s, t) ==
    IF Len(s) = 0 THEN TRUE
    ELSE IF Len(t) = 0 THEN FALSE
    ELSE IF Head(s) = Head(t) THEN IsSubsequence(Tail(s), Tail(t))
    ELSE IsSubsequence(s, Tail(t))
\* the subgoal of tree g that has the given id
SubgoalWithId(g, id) ==
    g.subgoals[CHOOSE i \in 1..Len(g.subgoals) : g.subgoals[i].id = id]

\* C17: an id is given at construction and kept: in every step each entity
\* that stays in the tree has the id it had (a step adds ids only for the
\* entities it constructs, and only a refinement takes entities out), the
\* value returned by from_dict(to_dict()) carries the same ids, and all ids
\* of a tree are pairwise distinct.
C17_IdsStable ==
    /\ [](DistinctIds(goal))
    /\ [](out.op = "from_dict" => IdsOf(out.val.subgoals) = IdsOf(goal.subgoals)
                                  /\ out.val.id = goal.id)
    /\ [][goal' # goal =>
          /\ goal'.id = goal.id
          /\ \E kept \in {SelectSeq(goal'.subgoals, LAMBDA sg : sg.id < nextId)} :
             \E made \in {SelectSeq(goal'.subgoals, LAMBDA sg : sg.id >= nextId)} :
                /\ goal'.subgoals = kept \o made
                /\ IsSubsequence(IdsOf(kept), IdsOf(goal.subgoals))
                /\ \A n \in 1..Len(kept) :
                    \E new \in {kept[n]} : \E old \in {SubgoalWithId(goal, new.id)} :
                       /\ Len(new.tasks) >= Len(old.tasks)
                       /\ \A j \in 1..Len(old.tasks) :
                            /\ new.tasks[j].id = old.tasks[j].id
                            /\ Len(new.tasks[j].subtasks) >= Len(old.tasks[j].subtasks)
                            /\ \A k \in 1..Len(old.tasks[j].subtasks) :
                                new.tasks[j].subtasks[k].id = old.tasks[j].subtasks[k].id
                /\ AllIds(goal') \subseteq AllIds(goal) \cup nextId..(nextId' - 1)]_vars

C17_Witness ==
    /\ Len(goal.subgoals) = 2
    /\ goal.subgoals[1].id = 3
    /\ goal.subgoals[2].id = 4
    /\ 2 \notin AllIds(goal)

\* C18: from_dict(to_dict(e)) has every field of e, for the Goal and for
\* every Subgoal, Task and Subtask of a reachable tree: ids, back-references,
\* flags, status, due, estimated minutes, confidence, creation time and the
\* children in their order.
C18_RoundTrip ==
    /\ (out.op = "from_dict" => out.val = goal)
    /\ \A i \in 1..Len(goal.subgoals) :
        LET sg == goal.subgoals[i]
        IN /\ Subgoal_from_dict(Subgoal_to_dict(sg), nextId) = sg
           /\ \A j \in 1..Len(sg.tasks) :
                LET t == sg.tasks[j]
                IN /\ Task_from_dict(Task_to_dict(t), nextId) = t
                   /\ \A k \in 1..Len(t.subtasks) :
                        Subtask_from_dict(Subtask_to_dict(t.subtasks[k]), nextId)
                            = t.subtasks[k]

C18_Witness ==
    /\ out.op = "from_dict"
    /\ goal.created_at.micro # 0
    /\ goal.status = "completed"
    /\ Len(goal.subgoals) = 1
    /\ Len(goal.subgoals[1].tasks) = 1
    /\ goal.subgoals[1].tasks[1].started
    /\ goal.subgoals[1].tasks[1].due = "Today"
    /\ goal.subgoals[1].tasks[1].estimated_minutes = NoMinutes
    /\ Len(goal.subgoals[1].tasks[1].subtasks) = 1
    /\ goal.subgoals[1].tasks[1].subtasks[1].done

\* the task a percentage was asked of, and its subtasks marked done
AskedSubgoal == goal.subgoals[out.at[1]]
AskedTask == goal.subgoals[out.at[1]].tasks[out.at[2]]
DoneAt(seq) == {n \in 1..Len(seq) : seq[n].done}

\* C19: Task.get_completion_percentage is 100 for a task without subtasks
\* that is done, 0 for one that is not done, and otherwise
\* 100 * (subtasks done) / (subtasks) whatever the task's own done flag; it
\* lies in 0..100.
C19_TaskPercentage ==
    out.op = "task_percentage" =>
        LET p == out.val
            n == Len(AskedTask.subtasks)
        IN /\ p[2] > 0
           /\ 0 <= p[1] /\ p[1] <= 100 * p[2]
           /\ (n = 0 /\ AskedTask.done => p[1] = 100 * p[2])
           /\ (n = 0 /\ ~AskedTask.done => p[1] = 0)
           /\ (n > 0 => p[1] * n = 100 * Cardinality(DoneAt(AskedTask.subtasks)) * p[2])

C19_Witness ==
    /\ out.op = "task_percentage"
    /\ Len(AskedTask.subtasks) = 2
    /\ Cardinality(DoneAt(AskedTask.subtasks)) = 1
    /\ AskedTask.done
    /\ out.val[1] = 50 * out.val[2]

\* C20: Subgoal.get_completion_percentage is 0 for a subgoal without tasks
\* and otherwise 100 * (tasks whose own done flag is set) / (tasks); the
\* subtasks of a task do not count.
C20_SubgoalPercentage ==
    out.op = "subgoal_percentage" =>
        LET p == out.val
            n == Len(AskedSubgoal.tasks)
        IN /\ p[2] > 0
           /\ (n = 0 => p[1] = 0)
           /\ (n > 0 => p[1] * n = 100 * Cardinality(DoneAt(AskedSubgoal.tasks)) * p[2])

C20_Witness ==
    /\ out.op = "subgoal_percentage"
    /\ Len(AskedSubgoal.tasks) = 1
    /\ ~AskedSubgoal.tasks[1].done
    /\ Len(AskedSubgoal.tasks[1].subtasks) = 2
    /\ Cardinality(DoneAt(AskedSubgoal.tasks[1].subtasks)) = 2
    /\ out.val[1] = 0

\* the tasks of a tree, as places, and those marked done
TaskPlaces(g) ==
    UNION {{<<i, j>> : j \in 1..Len(g.subgoals[i].tasks)} : i \in 1..Len(g.subgoals)}
DoneTaskPlaces(g) == {p \in TaskPlaces(g) : g.subgoals[p[1]].tasks[p[2]].done}

\* C21: Goal.get_completion_percentage is 100 * get_completed_tasks() /
\* get_total_tasks() over the tasks of all subgoals taken together, and 0
\* for a goal without subgoals or without tasks; get_total_tasks() counts
\* every task, get_completed_tasks() those marked done, so it never exceeds
\* the total.
C21_GoalPercentage ==
    out.op = "goal_progress" =>
        LET p == out.val.completion
            completed == out.val.completed
            total == out.val.total
        IN /\ total = Cardinality(TaskPlaces(goal))
           /\ completed = Cardinality(DoneTaskPlaces(goal))
           /\ completed <= total
           /\ p[2] > 0
           /\ (total = 0 => p[1] = 0)
           /\ (total > 0 => p[1] * total = 100 * completed * p[2])

\* pooled 100 where the mean of the subgoals' percentages would be 50
C21_Witness ==
    /\ out.op = "goal_progress"
    /\ Len(goal.subgoals) = 2
    /\ Len(goal.subgoals[1].tasks) = 1
    /\ goal.subgoals[1].tasks[1].done
    /\ Len(goal.subgoals[2].tasks) = 0
    /\ out.val.completion[1] = 100 * out.val.completion[2]

\* the status update_status is to give a subgoal, from its tasks alone
ExpectedSubgoalStatus(sg) ==
    IF Len(sg.tasks) >= 1 /\ \A j \in 1..Len(sg.tasks) : sg.tasks[j].done
    THEN "completed" ELSE "active"

\* C22: Subgoal.update_status sets the status to "active" when the subgoal
\* has no tasks, to "completed" when it has at least one task and all are
\* done, and to "active" otherwise, whatever the status was before (so never
\* "paused"); it changes nothing else.
C22_SubgoalUpdateStatus ==
    [][out'.op = "update_status" /\ Len(out'.at) = 1 =>
        \E i \in {out'.at[1]} : \E sg \in {goal.subgoals[i]} :
            /\ goal'.subgoals[i].status =
                 (IF Len(sg.tasks) = 0 THEN "active"
                  ELSE IF Cardinality({j \in 1..Len(sg.tasks) : sg.tasks[j].done})
                          = Len(sg.tasks)
                       THEN "completed" ELSE "active")
            /\ goal'.subgoals[i].status # "paused"
            /\ goal' = [goal EXCEPT !.subgoals[i].status = goal'.subgoals[i].status]]_vars

\* a subgoal loaded as "paused", with its task not done, was made "active"
\* by its own update_status (the goal still carries its loaded status)
C22_Witness ==
    /\ out.op = "update_status"
    /\ out.at = <<1>>
    /\ goal.title = "Loaded"
    /\ goal.status = "archived"
    /\ goal.subgoals[1].status = "active"
    /\ ~goal.subgoals[1].tasks[1].done

\* C23: Goal.update_status recomputes the status of every child Subgoal and
\* then sets its own: "active" without subgoals, "completed" when every
\* child's recomputed status is "completed", "active" otherwise; after the
\* call every child carries the status its tasks give it, and nothing else
\* has changed.
C23_GoalUpdateStatus ==
    [][out'.op = "update_status" /\ Len(out'.at) = 0 =>
        /\ Len(goal'.subgoals) = Len(goal.subgoals)
        /\ \A i \in 1..Len(goal.subgoals) :
            /\ goal'.subgoals[i].status = ExpectedSubgoalStatus(goal.subgoals[i])
            /\ goal'.subgoals[i] =
                 [goal.subgoals[i] EXCEPT !.status = goal'.subgoals[i].status]
        /\ goal'.status =
             (IF Len(goal.subgoals) = 0 THEN "active"
              ELSE IF \A i \in 1..Len(goal.subgoals) :
                        ExpectedSubgoalStatus(goal.subgoals[i]) = "completed"
                   THEN "completed" ELSE "active")
        /\ [goal' EXCEPT !.subgoals = goal.subgoals, !.status = goal.status] = goal]_vars

\* a goal loaded as "archived" with a child loaded as "paused" whose task is
\* done: its update_status made both "completed"
C23_Witness ==
    /\ out.op = "update_status"
    /\ out.at = <<>>
    /\ goal.title = "Loaded"
    /\ goal.status = "completed"
    /\ Len(goal.subgoals) = 2
    /\ goal.subgoals[1].status = "completed"
    /\ goal.subgoals[2].status = "completed"

\* every task of the subgoal, or of the goal, has done set
AllTasksDone(sg) == \A j \in 1..Len(sg.tasks) : sg.tasks[j].done
AllLeafTasksDone(g) == \A i \in 1..Len(g.subgoals) : AllTasksDone(g.subgoals[i])

\* C24: update_status of a Subgoal, or of a Goal, all of whose tasks are
\* done yields the status "completed".
C24_AllDoneCompleted ==
    [][out'.op = "update_status" =>
        IF Len(out'.at) = 1
        THEN AllTasksDone(goal.subgoals[out'.at[1]])
                => goal'.subgoals[out'.at[1]].status = "completed"
        ELSE AllLeafTasksDone(goal) => goal'.status = "completed"]_vars

\* C24 as amended: update_status of a Subgoal that has at least one task,
\* all done, yields "completed"; update_status of a Goal that has at least
\* one subgoal, each with at least one task, all done, yields "completed"
\* for the goal and for every subgoal.
C24_NonEmptyAllDoneCompleted ==
    [][out'.op = "update_status" =>
        IF Len(out'.at) = 1
        THEN \E sg \in {goal.subgoals[out'.at[1]]} :
                Len(sg.tasks) >= 1 /\ AllTasksDone(sg)
                    => goal'.subgoals[out'.at[1]].status = "completed"
        ELSE /\ Len(goal.subgoals) >= 1
             /\ \A i \in 1..Len(goal.subgoals) : Len(goal.subgoals[i].tasks) >= 1
             /\ AllLeafTasksDone(goal)
             => /\ goal'.status = "completed"
                /\ \A i \in 1..Len(goal'.subgoals) :
                        goal'.subgoals[i].status = "completed"]_vars

\* a goal made "completed" by update_status: its task is done although one
\* of the task's subtasks is not
C24_Witness ==
    /\ out.op = "update_status"
    /\ out.at = <<>>
    /\ goal.status = "completed"
    /\ Len(goal.subgoals) >= 1
    /\ Len(goal.subgoals[1].tasks) >= 1
    /\ AllLeafTasksDone(goal)
    /\ Len(goal.subgoals[1].tasks[1].subtasks) >= 1
    /\ ~goal.subgoals[1].tasks[1].subtasks[1].done

\* C25: flatten_goal_to_legacy_tasks returns one record per task, as many
\* as get_total_tasks(), subgoal by subgoal and within a subgoal task by
\* task; the record of a task has the label "<subgoal title>: <task text>",
\* the task's due, started, done and counted, the descriptions of its
\* subtasks in order, and the ids of the goal, of the subgoal that holds
\* the task and of the task; the tree is left as it was.
C25_Flatten ==
    [][out'.op = "flatten" =>
        /\ goal' = goal
        /\ Len(out'.val) = get_total_tasks(goal)
        /\ Len(out'.val) = Cardinality(TaskPlaces(goal))
        /\ \A p \in TaskPlaces(goal) :
            \E sg \in {goal.subgoals[p[1]]} : \E t \in {goal.subgoals[p[1]].tasks[p[2]]} :
            \E n \in {Cardinality({q \in TaskPlaces(goal) :
                                     q[1] < p[1] \/ (q[1] = p[1] /\ q[2] <= p[2])})} :
            \E rec \in {out'.val[n]} :
                /\ rec.task = <<sg.title, ": ", t.task>>
                /\ rec.due = t.due
                /\ rec.started = t.started
                /\ rec.done = t.done
                /\ rec.counted = t.counted
                /\ Len(rec.subtasks) = Len(t.subtasks)
                /\ \A k \in 1..Len(t.subtasks) : rec.subtasks[k] = t.subtasks[k].description
                /\ rec._goal_id = goal.id
                /\ rec._subgoal_id = sg.id
                /\ rec._task_id = t.id
                /\ DOMAIN rec = {"task", "due", "started", "done", "subtasks", "counted",
                                 "_goal_id", "_subgoal_id", "_task_id"}]_vars

\* two subgoals with one task each were flattened
C25_Witness ==
    /\ out.op = "flatten"
    /\ Len(out.val) = 2
    /\ out.val[1]._subgoal_id # out.val[2]._subgoal_id
    /\ out.val[1].done
    /\ ~out.val[2].done

\* the number of lines a task, and a subgoal, take up in the rendering
LinesOfTask(t) == 1 + Len(t.subtasks)
RECURSIVE LinesOfTasks(_, _)
LinesOfTasks(sg, n) ==
    IF n = 0 THEN 0 ELSE LinesOfTasks(sg, n - 1) + LinesOfTask(sg.tasks[n])
RECURSIVE LinesOfSubgoals(_, _)
LinesOfSubgoals(g, n) ==
    IF n = 0 THEN 0
    ELSE LinesOfSubgoals(g, n - 1) + 1
         + LinesOfTasks(g.subgoals[n], Len(g.subgoals[n].tasks))
\* the number of the line that shows the entity at a place
LineOf(g, p) ==
    1 + LinesOfSubgoals(g, p[1] - 1) + 1
    + (IF Len(p) >= 2 THEN LinesOfTasks(g.subgoals[p[1]], p[2] - 1) + 1 ELSE 0)
    + (IF Len(p) = 3 THEN p[3] ELSE 0)
\* the entity at a place is the last of its siblings
IsLast(g, p) ==
    IF Len(p) = 1 THEN p[1] = Len(g.subgoals)
    ELSE IF Len(p) = 2 THEN p[2] = Len(g.subgoals[p[1]].tasks)
    ELSE p[3] = Len(g.subgoals[p[1]].tasks[p[2]].subtasks)

\* C26: in the rendering of a tree, at every level (subgoals, tasks,
\* subtasks) the last item of a sibling list is drawn with the closing
\* connector and every other item with the continuing connector, and no
\* vertical bar is drawn in the column of the subgoals beneath the last
\* subgoal, nor in the column of the tasks beneath the last task.
C26_LastChildClosed ==
    out.op = "render" =>
        \A p \in Places(goal) \ {<<>>} :
            \E prefix \in {out.val[LineOf(goal, p)].prefix} :
                /\ prefix[Len(prefix)] =
                     (IF IsLast(goal, p) THEN Closing ELSE Continuing)
                /\ Len(p) >= 2 /\ IsLast(goal, <<p[1]>>) => prefix[1] # Bar
                /\ Len(p) = 3 /\ IsLast(goal, <<p[1], p[2]>>) =>
                        \A c \in 1..(Len(prefix) - 1) : c >= 2 => prefix[c] # Bar

\* the statuses update_status would give the subgoals and the goal
ComputedStatuses(g) ==
    LET u == Goal_update_status(g)
    IN <<u.status, [i \in 1..Len(u.subgoals) |-> u.subgoals[i].status]>>
SubgoalPercentages(g) ==
    [i \in 1..Len(g.subgoals) |-> Subgoal_get_completion_percentage(g.subgoals[i])]

\* C28: the done flag of a Task is written by nothing but the assignment
\* from outside (the checkbox): add_subtask, the percentages, update_status,
\* to_dict/from_dict, flatten, the rendering and a refinement leave the done
\* flag of every task that stays in the tree as it was; and a step that
\* sets the done flag of a subtask changes, besides that flag, at most the
\* completion percentage of the task that holds it: the percentages of the
\* other tasks, of every subgoal and of the goal, and the statuses
\* update_status computes, are what they were.
C28_TaskDoneDecoupled ==
    [][/\ out'.op # "set_done" =>
            \A p \in TaskPlaces(goal) : \A q \in TaskPlaces(goal') :
                goal.subgoals[p[1]].tasks[p[2]].id = goal'.subgoals[q[1]].tasks[q[2]].id
                => goal'.subgoals[q[1]].tasks[q[2]].done = goal.subgoals[p[1]].tasks[p[2]].done
       /\ out'.op = "set_subtask_done" =>
            /\ goal' = [goal EXCEPT
                 !.subgoals[out'.at[1]].tasks[out'.at[2]].subtasks[out'.at[3]].done = out'.val]
            /\ \A p \in TaskPlaces(goal) :
                p # <<out'.at[1], out'.at[2]>> =>
                    Task_get_completion_percentage(goal'.subgoals[p[1]].tasks[p[2]])
                    = Task_get_completion_percentage(goal.subgoals[p[1]].tasks[p[2]])
            /\ SubgoalPercentages(goal') = SubgoalPercentages(goal)
            /\ Goal_get_completion_percentage(goal') = Goal_get_completion_percentage(goal)
            /\ get_completed_tasks(goal') = get_completed_tasks(goal)
            /\ ComputedStatuses(goal') = ComputedStatuses(goal)]_vars

\* the last subtask of a task was just marked done: the task is at 100% by
\* its subtasks, and its own done flag is still false
C28_Witness ==
    /\ out.op = "set_subtask_done"
    /\ out.val
    /\ \E t \in {goal.subgoals[out.at[1]].tasks[out.at[2]]} :
        /\ ~t.done
        /\ Len(t.subtasks) = 2
        /\ \A k \in 1..Len(t.subtasks) : t.subtasks[k].done
        /\ Task_get_completion_percentage(t) = <<200, 2>>
    /\ Subgoal_get_completion_percentage(goal.subgoals[out.at[1]]) = <<0, 1>>

\* C29: the status of the Goal and of every Subgoal changes only in an
\* update_status (a refinement ends with the goal's update_status): the
\* factories, the assignments to started and done, the percentages and
\* counts, to_dict/from_dict, flatten and the rendering leave every status
\* as it was, so a "completed" subgoal that gets a new task, or has a task
\* un-done, stays "completed" until the next update_status.
C29_StatusOnlyByUpdate ==
    [][out'.op \notin {"update_status", "refine"} =>
        /\ goal'.status = goal.status
        /\ Len(goal'.subgoals) >= Len(goal.subgoals)
        /\ \A i \in 1..Len(goal.subgoals) :
            /\ goal'.subgoals[i].id = goal.subgoals[i].id
            /\ goal'.subgoals[i].status = goal.subgoals[i].status]_vars

\* a "completed" subgoal was given a new task, which is not done
C29_Witness ==
    /\ out.op = "add_task"
    /\ \E sg \in {goal.subgoals[out.at[1]]} :
        /\ sg.status = "completed"
        /\ Len(sg.tasks) = 2
        /\ ~sg.tasks[2].done
        /\ sg.tasks[2].id = out.val.id

\* C30: a split stage whose call succeeds stores the stub list of the
\* response (an empty list when the response has none), sets the cursor to 0
\* and the stored task lists to empty, and sets confidence and rationale to
\* those the response carries; the rest of the state is left as it was.
C30_SplitSuccess ==
    [][pc = "decompose_to_subgoals" /\ last'.called /\ last'.ok =>
        \E resp \in SplitResponses : \E r \in {ExtractJson(resp)} :
            /\ r.ok
            /\ last' = CallExec("decompose_to_subgoals", 0, r)
            /\ state'.subgoals_list =
                 (IF "subgoals" \in r.data.has THEN r.data.subgoals ELSE <<>>)
            /\ state'.current_subgoal_index = 0
            /\ state'.generated_tasks = <<>>
            /\ "confidence" \in r.data.has => state'.confidence = r.data.confidence
            /\ "rationale" \in r.data.has => state'.rationale = r.data.rationale
            /\ [state' EXCEPT !.subgoals_list = state.subgoals_list,
                              !.current_subgoal_index = state.current_subgoal_index,
                              !.generated_tasks = state.generated_tasks,
                              !.confidence = state.confidence,
                              !.rationale = state.rationale] = state]_vars

\* the split stage has just stored a full stub list with the response's
\* confidence and rationale, after a parse stage that stored other ones
C30_Witness ==
    /\ pc = "generate_tasks"
    /\ last.node = "decompose_to_subgoals"
    /\ last.ok
    /\ Len(state.subgoals_list) = MaxStubs
    /\ state.current_subgoal_index = 0
    /\ state.generated_tasks = <<>>
    /\ trace[1].ok
    /\ trace[1].confidence = 8
    /\ state.confidence = 7
    /\ state.rationale = "Node 2: fine"

\* what a run would end with alone, given the responses it has been fed
Alone(r) ==
    Invoke(InitialState(RunArgs(r).goal_text, RunArgs(r).category,
                        RunArgs(r).user_feedback),
           EntryPoint, runs.fed[r])
\* the fields of a run's dict, the Goal without its ids and creation time
Fields(st) ==
    [st EXCEPT !.final_goal = IF @ = None THEN None ELSE Some(WithoutIds(@[1]))]

\* C27: two runs interleaved in any order have each a dict of their own: a
\* node execution of one run leaves the other run's dict (cursor, stub
\* list, task lists, confidence, rationale, error note, final Goal), next
\* node and returned value as they were; and a run that has ended has the
\* dict, and returns the Goal (ids and creation time aside), that it has
\* when run alone with the same responses.
C27_RunsIsolated ==
    /\ [](Started(1) /\ Started(2) => runs.ref[1] # runs.ref[2])
    /\ [][\A q \in Runs :
            q # runs'.turn /\ Started(q) =>
                /\ runs'.ref[q] = runs.ref[q]
                /\ runs'.heap[runs'.ref[q]] = runs.heap[runs.ref[q]]
                /\ runs'.pc[q] = runs.pc[q]
                /\ runs'.ret[q] = runs.ret[q]
                /\ runs'.fed[q] = runs.fed[q]]_vars
    /\ [](\A r \in Runs :
            /\ runs.pc[r] \in {"END", "returned"} =>
                /\ ~Alone(r).raised
                /\ Fields(StateOf(r)) = Fields(Alone(r).state)
            /\ runs.pc[r] = "returned" =>
                Fields(StateOf(r)).final_goal
                  = (IF runs.ret[r] = None THEN None ELSE Some(WithoutIds(runs.ret[r][1])))
            /\ runs.pc[r] = "raised" => Alone(r).raised)

\* both runs have returned a Goal; the second was called first, and the
\* first had a failed task-generation call on its way
C27_Witness ==
    /\ runs.pc[1] = "returned"
    /\ runs.pc[2] = "returned"
    /\ runs.ref[2] = 1
    /\ runs.ref[1] = 2
    /\ runs.ret[1] # None
    /\ runs.ret[2] # None
    /\ Len(runs.ret[1][1].subgoals) = 1
    /\ runs.ret[2][1].subgoals = <<>>
    /\ runs.ret[1][1].category = "Academics"
    /\ runs.ret[2][1].category = "Sports"
    /\ FailedGenCalls(1) >= 1

\* C31: a task-generation execution whose call succeeds at cursor i stores
\* the task list of the response (an empty list when it has none) under
\* the key of i, leaves the lists stored under the other keys as they were
\* and makes the cursor i + 1; no step moves the cursor up by more than one.
C31_GenSuccessStores ==
    /\ [][pc = "generate_tasks" /\ last'.called /\ last'.ok =>
            \E resp \in GenResponses : \E r \in {ExtractJson(resp)} :
                /\ r.ok
                /\ last' = CallExec("generate_tasks", Cursor, r)
                /\ DOMAIN state'.generated_tasks
                     = DOMAIN state.generated_tasks \cup {SubgoalKey(Cursor)}
                /\ state'.generated_tasks[SubgoalKey(Cursor)] =
                     (IF "tasks" \in r.data.has THEN r.data.tasks ELSE <<>>)
                /\ \A k \in DOMAIN state.generated_tasks \ {SubgoalKey(Cursor)} :
                     state'.generated_tasks[k] = state.generated_tasks[k]
                /\ state'.current_subgoal_index = Cursor + 1]_vars
    /\ [][state'.current_subgoal_index <= Cursor + 1]_vars

\* the second task-generation call has succeeded: two lists are stored,
\* one per index, and the cursor is 2
C31_Witness ==
    /\ last.node = "generate_tasks"
    /\ last.called
    /\ last.ok
    /\ last.idx = 1
    /\ Cursor = 2
    /\ DOMAIN state.generated_tasks = {SubgoalKey(0), SubgoalKey(1)}
    /\ state.generated_tasks[SubgoalKey(0)] = GoodTasks(MaxTasks)
    /\ state.generated_tasks[SubgoalKey(1)] = <<>>

\* C32: every execution of the parse stage and of the split stage issues
\* one completion call; an execution of the task-generation stage issues
\* one when the cursor is below the number of stubs, and none, leaving the
\* state as it was, when it is not; finalize issues none.
C32_CallsPerStage ==
    [][/\ pc \in {"parse_goal", "decompose_to_subgoals"} =>
            last'.node = pc /\ last'.called
       /\ pc = "generate_tasks" /\ Cursor < Len(Stubs) =>
            last'.node = pc /\ last'.called /\ last'.idx = Cursor
       /\ pc = "generate_tasks" /\ Cursor >= Len(Stubs) =>
            last'.node = pc /\ ~last'.called /\ state' = state
       /\ pc = "finalize" => last'.node = pc /\ ~last'.called]_vars

\* C33: in every state of a run the cursor is at least 0 and at most the
\* number of stubs; finalize is executed only with the cursor at the number
\* of stubs exactly, and the cursor stays there afterwards.
C33_CursorInRange ==
    /\ 0 <= Cursor
    /\ Cursor <= Len(Stubs)
    /\ pc = "finalize" \/ RanFinalize(trace) =>
            Cursor = Len(Stubs)

\* finalize is about to run after all stubs got their tasks, one of the
\* calls having failed first
C33_Witness ==
    /\ pc = "finalize"
    /\ Len(Stubs) = MaxStubs
    /\ Cursor = MaxStubs
    /\ FailedGens(trace) >= 1

\* C34: in every state of a run the stub indices that have a stored task
\* list are 0, ..., cursor - 1 and no others; and a list stored under an
\* index the cursor has passed is never replaced.
C34_StoredIndices ==
    /\ [](DOMAIN state.generated_tasks = {SubgoalKey(i) : i \in 0..(Cursor - 1)})
    /\ [][\A i \in 0..(Cursor - 1) :
            /\ SubgoalKey(i) \in DOMAIN state'.generated_tasks
            /\ state'.generated_tasks[SubgoalKey(i)] = state.generated_tasks[SubgoalKey(i)]]_vars

\* the first index has its list, the call for the second has just failed
C34_Witness ==
    /\ IsFailedGen(last)
    /\ Cursor = 1
    /\ Len(Stubs) = MaxStubs
    /\ DOMAIN state.generated_tasks = {SubgoalKey(0)}
    /\ state.generated_tasks[SubgoalKey(0)] # <<>>

\* C35: an error note, once recorded, stays non-empty for the rest of the
\* run, whatever the later stages do; and a run in which no stage failed
\* ends with an empty error note.
C35_ErrorNoteStays ==
    /\ [][state.error # "" => state'.error # ""]_vars
    /\ []((pc = "returned" /\ \A k \in 1..Len(trace) : trace[k].ok)
            => state.error = "")

\* the parse call failed, every later stage succeeded, and the run has
\* returned a Goal with the note of the parse failure still there
C35_Witness ==
    /\ pc = "returned"
    /\ ret # None
    /\ ParseFailed
    /\ \A k \in 2..Len(trace) : trace[k].ok
    /\ Len(ret[1].subgoals) = MaxStubs
    /\ state.error = "Parse error: service unavailable"

\* C36: goal text, category and the user-feedback list are the same in every
\* state of a run as the values the entry point was called with, and the
\* values the caller holds are never changed.
C36_InputsUnchanged ==
    /\ [](/\ state.goal_text = args.goal_text
          /\ state.category = args.category
          /\ state.user_feedback = args.user_feedback)
    /\ [][args' = args]_vars

\* a run that went through all four stages with a parsed title other than
\* the goal text and a non-empty feedback list, and has returned
C36_Witness ==
    /\ pc = "returned"
    /\ ret # None
    /\ RanFinalize(trace)
    /\ Len(GenCalls(trace)) >= MaxStubs
    /\ state.parsed_goal_title # state.goal_text
    /\ Len(args.user_feedback) > 0
    /\ state.user_feedback = Feedback
    /\ state.goal_text \in GoalTexts

\* C37: when the parse call and the split call both fail, the run still
\* returns a Goal, not None: its title is the raw goal text, its description
\* is empty, it has no subgoals and its confidence is the initial 5; the
\* failure shows only in the error note of the state.
C37_BothFail ==
    (ParseFailed /\ SplitFailed) =>
        /\ pc # "raised"
        /\ GenCalls(trace) = <<>>
        /\ state.error # ""
        /\ pc = "returned" =>
                /\ ret # None
                /\ ret[1].title = args.goal_text
                /\ ret[1].description = ""
                /\ ret[1].subgoals = <<>>
                /\ ret[1].confidence = DefaultConfidence
                /\ ret[1].rationale = ""
                /\ ret[1].status = "active"

\* both calls failed, no task-generation call was made, and the run returned
\* a Goal with confidence 5
C37_Witness ==
    /\ ParseFailed
    /\ SplitFailed
    /\ pc = "returned"
    /\ Len(trace) = 4
    /\ GenCalls(trace) = <<>>
    /\ ret # None
    /\ ret[1].confidence = 5
    /\ ret[1].title = "Prepare for Nov 2 exam"
    /\ ret[1].description = ""

\* C38: after Goal.update_status the status is "completed" exactly when the
\* goal has at least one subgoal, every subgoal has at least one task and
\* every task is done, and "active" in every other case, whatever the status
\* was before ("paused" and "archived" included); a second call right after
\* the first changes nothing.
C38_GoalStatusIff ==
    [][out'.op = "update_status" /\ Len(out'.at) = 0 =>
        /\ goal'.status \in {"completed", "active"}
        /\ goal'.status = "completed" <=>
                /\ Len(goal.subgoals) >= 1
                /\ \A i \in 1..Len(goal.subgoals) :
                    /\ Len(goal.subgoals[i].tasks) >= 1
                    /\ \A j \in 1..Len(goal.subgoals[i].tasks) :
                            goal.subgoals[i].tasks[j].done
        /\ Goal_update_status(goal') = goal']_vars

\* the goal loaded as "archived" is "active" after its update_status: the
\* task of its first subgoal, loaded as "paused", is not done
C38_Witness ==
    /\ out.op = "update_status"
    /\ out.at = <<>>
    /\ goal.title = "Loaded"
    /\ goal.status = "active"
    /\ Len(goal.subgoals) = 2
    /\ ~goal.subgoals[1].tasks[1].done
    /\ goal.subgoals[1].status = "active"
    /\ goal.subgoals[2].status = "completed"

\* the elements of s whose 0-based position among the first n is not listed
RECURSIVE Unlisted(_, _, _)
Unlisted(s, listed, n) ==
    IF n = 0 THEN <<>>
    ELSE Unlisted(s, listed, n - 1)
         \o (IF (n - 1) \in listed THEN <<>> ELSE <<s[n]>>)
Ident(sg) == <<sg.id, sg.title>>

\* C39: a refinement whose response parses appends the new subgoals first
\* and then removes by index: the subgoals that are gone are exactly those
\* that stood, in the list with the new subgoals appended, at the listed
\* indices that are in range of that list; indices out of range are ignored
\* and the subgoals that stay keep their order.
C39_RefineRemoves ==
    [][out'.op = "refine" /\ out'.val.ok =>
        \E req \in {out'.val} :
        \E before \in {[k \in 1..(Len(goal.subgoals) + Len(req.add_subgoals)) |->
                        IF k <= Len(goal.subgoals) THEN Ident(goal.subgoals[k])
                        ELSE <<nextId + k - Len(goal.subgoals) - 1,
                               req.add_subgoals[k - Len(goal.subgoals)]>>]} :
        \E listed \in {{i \in 0..(Len(before) - 1) :
                        \E k \in 1..Len(req.remove_subgoal_indices) :
                            req.remove_subgoal_indices[k] = i}} :
            [k \in 1..Len(goal'.subgoals) |-> Ident(goal'.subgoals[k])]
                = Unlisted(before, listed, Len(before))]_vars

====
